---- MODULE Spec2Model ----
(***************************************************************************)
(* Model of larose23/ai-job-agent: the application dispatcher, the         *)
(* tracking sheet it writes to, the auto-apply run over e-mailed jobs, the *)
(* three de-duplication passes, the per-card record extraction of the     *)
(* LinkedIn and Indeed scrapers, the field extractors, the cookie files,   *)
(* the logins with their retries, the paginated crawl of one platform and  *)
(* the run over several platforms.                                         *)
(*                                                                         *)
(* Conventions.  A Python dict key that is absent is the value NoKey; a    *)
(* URL-like value is a TLA+ string; a free-text value (title, company,     *)
(* location, description) is a sequence of one-character strings, so that  *)
(* str.strip and str.lower are computed and not assumed; an absent or None *)
(* free-text value is the empty sequence, which the code treats alike.  A  *)
(* boolean of a dict is "True" or "False".  A call that may raise returns  *)
(* a record with a field raised, or the value "raise".                     *)
(***************************************************************************)
EXTENDS Integers, Sequences, FiniteSets, TLC

VARIABLES
    cfg,        \* ApplicationDispatcher.config: the two routing flags
    store,      \* SheetsLogger: connection flag, Jobs rows, Review rows
    job,        \* the job of the last dispatch call
    result,     \* what the last dispatch call returned
    calls,      \* collaborator calls made by the last dispatch call, in order
    nCalls,     \* number of dispatch calls made so far
    api,        \* whether the sheet API answered during the last step
    runJobs,    \* run_auto_apply: the list returned by scan_job_emails
    runIdx,     \* run_auto_apply: number of jobs the loop has gone through
    runPc,      \* run_auto_apply: position of the run
    startUrls,  \* the store's job URLs when the run started
    dispatched, \* run_auto_apply: jobs handed to dispatch, in order
    dImpl,      \* which de-duplication pass was applied last
    dIn,        \* its input list
    dOut,       \* its output
    dOut2,      \* the output of the same pass applied to dOut
    cards,      \* result containers of one scraped page
    scraped,    \* records the scraper built from them
    scrapedBy,  \* which scraper built them
    perSource,  \* what the scraper's caller gets, after its de-duplication pass if any
    container,  \* the elements of the container a field is extracted from
    extracted,  \* the value the extractor returned for the field
    extractedBy, \* which extractor ran
    platform,   \* the platform whose cookie file and login are at hand
    jar,        \* <platform>_cookies.json: existence, age in days, content
    ctxCookies, \* cookies of the browser context
    loadRet,    \* what load_cookies returned
    loginImpl,  \* the login function at hand
    lpc,        \* where the login is: idle, call, raised, done
    attempt,    \* number of the current attempt, from 1
    events,     \* what the login did so far, in order
    loginResult, \* how the login ended: ok, raise, or None while it runs
    crawlImpl,  \* the crawl function at hand
    nPairs,     \* number of (keyword, location) pairs it is called with
    maxPages,   \* its max_pages argument
    pairIdx,    \* the pair the crawl is at, from 1
    pageIdx,    \* the page of that pair the crawl is at, from 1
    requests,   \* the pages requested so far, in order, with what they showed
    allJobs,    \* all_jobs of the crawl
    cpc,        \* where the crawl is: idle, start, page, return, done
    crawlResult, \* how the crawl ended: return, raise, or None while it runs
    crawlOut,   \* what the crawl returned
    runImpl,    \* the multi-platform run at hand
    platforms,  \* the platforms it goes through, in order
    existing,   \* existing_urls of scrape_mode
    platIdx,    \* number of platforms the run has gone through
    platLog,    \* how each of them went, in order
    runAll,     \* all_jobs of the run
    ppc,        \* where the run is: idle, loop, done
    runOut,     \* the collection the run ends with
    body,       \* an e-mail body: its lines, each the sequence of its words
    parsedBy,   \* which parser went over it
    parsed,     \* the jobs the parser returned
    appJob,     \* the job an application is made for
    appPage,    \* what the browser and the application page do
    appCfg,     \* the dispatcher's configuration
    appStore,   \* the sheet behind both SheetsLogger objects
    appBy,      \* the operation that ran: apply_to_job or dispatch
    appRet,     \* what it returned
    appSteps,   \* page operations and store calls it made, in order
    rMax,       \* _retry_api_call: its max_retries argument
    rBase,      \* its base_delay argument
    rPc,        \* where it is: idle, call, sleep, returned, raised
    rAttempt,   \* attempt of its loop, from 0
    rCalls,     \* number of times it invoked api_call
    rErrors,    \* the exceptions api_call raised, in order
    rWaits,     \* the delays it slept, in order
    rOut,      \* what it returned or raised
    bOp,        \* the operation that launches browsers
    bN,         \* scrape_mode: number of configured job sources
    bIdx,       \* scrape_mode: sources gone through
    bPc,        \* where the operation is
    bLog,       \* launches, closes and failures so far, in order
    bEnd,      \* how the operation ended: return, raise, or None while it runs
    fMsgs,      \* fetch_labeled_emails: ids of the unread messages found
    fIdx,       \* messages its loop has gone through
    fPc,        \* where it is: idle, start, loop, done
    fEmails,    \* its list emails: ids of the messages in it, in order
    fLog,       \* content fetches and mark-as-read attempts so far, in order
    fEnd        \* how it ended: return, raise, or None while it runs

dispVars == <<cfg, store, job, result, calls, nCalls, api>>
runVars == <<runJobs, runIdx, runPc, startUrls, dispatched>>
dedupVars == <<dImpl, dIn, dOut, dOut2>>
scrapeVars == <<cards, scraped, scrapedBy, perSource>>
extractVars == <<container, extracted, extractedBy>>
\* The variables of the specifications that follow the first four.
cookieVars == <<platform, jar, ctxCookies, loadRet>>
loginVars == <<loginImpl, lpc, attempt, events, loginResult>>
crawlVars == <<crawlImpl, nPairs, maxPages, pairIdx, pageIdx, requests, allJobs, cpc,
               crawlResult, crawlOut>>
platVars == <<runImpl, platforms, existing, platIdx, platLog, runAll, ppc, runOut>>
\* The variables of the specifications that follow the run over the platforms.
emailVars == <<body, parsedBy, parsed>>
applyVars == <<appJob, appPage, appCfg, appStore, appBy, appRet, appSteps>>
retryVars == <<rMax, rBase, rPc, rAttempt, rCalls, rErrors, rWaits, rOut>>
browserVars == <<bOp, bN, bIdx, bPc, bLog, bEnd>>
fetchVars == <<fMsgs, fIdx, fPc, fEmails, fLog, fEnd>>
thirdVars == <<emailVars, applyVars, retryVars, browserVars, fetchVars>>
laterVars == <<extractVars, cookieVars, loginVars, crawlVars, platVars, thirdVars>>
vars == <<cfg, store, job, result, calls, nCalls, api, runJobs, runIdx, runPc, startUrls,
          dispatched, dImpl, dIn, dOut, dOut2, cards, scraped, scrapedBy,
          perSource, laterVars>>

(***************************************************************************)
(* Bounds.                                                                 *)
(***************************************************************************)
MaxDispatches == 1
MaxRunJobs == 2
MaxDedupLen == 3
MaxCards == 2
MaxJarAge == 8
MaxPairs == 2
MaxPages == 2
MaxSources == 2
MaxPlatformJobs == 2
MaxLines == 4
MaxApiRetries == 3
MaxBaseDelay == 2
MaxBrowserSources == 3
MaxMessages == 3

(***************************************************************************)
(* Values.                                                                 *)
(***************************************************************************)
NoKey == "<no key>"
None == "<None>"

RECURSIVE SeqsUpTo(_, _)
SeqsUpTo(S, n) ==
    IF n = 0 THEN {<<>>}
    ELSE LET shorter == SeqsUpTo(S, n - 1)
         IN  shorter \cup {Append(s, x) : s \in {t \in shorter : Len(t) = n - 1}, x \in S}

\* A job dict.  Scraped records carry their link under the key url.
MkJob(title, company, location, description, job_url, apply_url, recruiter_email, url) ==
    [title |-> title, company |-> company, location |-> location,
     description |-> description, job_url |-> job_url, apply_url |-> apply_url,
     recruiter_email |-> recruiter_email, url |-> url]

MkJobRecord(title, company, location, url) ==
    MkJob(title, company, location, <<>>, NoKey, NoKey, NoKey, url)

\* Python truthiness of dict.get(key) for a string-valued key.
Truthy(v) == v # NoKey /\ v # None /\ v # ""

\* dict.get(key, default)
Get(v, default) == IF v = NoKey THEN default ELSE v

\* config.get(key, default) for a flag; the flag is "True", "False" or NoKey.
Flag(v, default) == IF v = NoKey THEN default ELSE v = "True"

PyBool(b) == IF b THEN "True" ELSE "False"

(***************************************************************************)
(* Free text: str.lower and str.strip over sequences of characters.        *)
(***************************************************************************)
LowerChar(c) == IF c = "A" THEN "a" ELSE IF c = "B" THEN "b" ELSE c

lower(t) == [i \in 1..Len(t) |-> LowerChar(t[i])]

IsSpace(c) == c = " "

RECURSIVE lstrip(_)
lstrip(t) == IF t # <<>> /\ IsSpace(Head(t)) THEN lstrip(Tail(t)) ELSE t

RECURSIVE rstrip(_)
rstrip(t) ==
    IF t # <<>> /\ IsSpace(t[Len(t)]) THEN rstrip(SubSeq(t, 1, Len(t) - 1)) ELSE t

strip(t) == lstrip(rstrip(t))

(***************************************************************************)
(* The tracking store: SheetsLogger over the Jobs and Review worksheets.   *)
(* A Jobs row keeps the columns the program reads or writes afterwards:    *)
(* A title, F job URL, K applied, L cold e-mail sent, M notes.  The header *)
(* row is left out; its column F holds a caption, never a job URL.         *)
(* apiOk is whether the gspread call of the method goes through.           *)
(* store.kind tells the class behind ApplicationDispatcher.sheets_logger:  *)
(* SheetsLogger in the program, or the DummySheetsLogger that the          *)
(* dispatcher's tests patch in, whose three methods only take a note of    *)
(* the call and which has no append_review_row and no append_job_row.      *)
(***************************************************************************)
Real == "SheetsLogger"
Dummy == "DummySheetsLogger"

Ok(st) == [st |-> st, raised |-> FALSE]
Raise(st) == [st |-> st, raised |-> TRUE]

JobsRow(title, url) == [title |-> title, url |-> url, applied |-> "", cold |-> "", notes |-> ""]

\* First index whose column F equals job_url, 0 when there is none.
FindRow(rows, job_url) ==
    IF \E i \in 1..Len(rows) : rows[i].url = job_url
    THEN CHOOSE i \in 1..Len(rows) :
             /\ rows[i].url = job_url
             /\ \A k \in 1..(i - 1) : rows[k].url # job_url
    ELSE 0

update_cell_by_url(st, job_url, col, value, apiOk) ==
    LET idx == FindRow(st.rows, job_url)
    IN  IF ~apiOk \/ idx = 0 THEN Ok(st)
        ELSE Ok([st EXCEPT !.rows[idx][col] = value])

get_existing_job_urls(st, apiOk) ==
    IF ~st.jobs_sheet \/ ~apiOk THEN {}
    ELSE {st.rows[i].url : i \in 1..Len(st.rows)}

\* An append_job_row that lets its failure out.
AppendRaises(st, j, apiOk) == Raise(st)

append_job_row(st, j, apiOk) ==
    IF st.kind = Dummy THEN Raise(st)
    ELSE IF ~st.jobs_sheet \/ ~apiOk THEN Ok(st)
    ELSE Ok([st EXCEPT !.rows = Append(@, JobsRow(j.title, Get(j.url, "")))])

mark_applied(st, job_url, apiOk) ==
    IF st.kind = Dummy \/ ~st.jobs_sheet THEN Ok(st)
    ELSE update_cell_by_url(st, job_url, "applied", "Yes", apiOk)

mark_cold_email_sent(st, job_url, apiOk) ==
    IF st.kind = Dummy \/ ~st.jobs_sheet THEN Ok(st)
    ELSE update_cell_by_url(st, job_url, "cold", "Yes", apiOk)

update_notes(st, job_url, notes, apiOk) ==
    IF st.kind = Dummy \/ ~st.jobs_sheet THEN Ok(st)
    ELSE update_cell_by_url(st, job_url, "notes", notes, apiOk)

append_review_row(st, j, apiOk) ==
    IF st.kind = Dummy THEN Raise(st)
    ELSE IF ~st.jobs_sheet \/ ~apiOk THEN Ok(st)
    ELSE Ok([st EXCEPT !.review = Append(@, [title |-> j.title,
                                             apply_url |-> Get(j.apply_url, ""),
                                             status |-> "Pending"])])

(***************************************************************************)
(* main.send_cold_email: raises on a failed validation or SMTP error,      *)
(* returns None otherwise.  env.emailValid is validate_email's verdict,    *)
(* env.credsOk whether the user profile and Gmail settings are complete,   *)
(* env.smtpOk whether the SMTP exchange goes through.                      *)
(***************************************************************************)
send_cold_email(j, env) ==
    IF ~Truthy(j.recruiter_email) \/ ~env.emailValid THEN "raise"
    ELSE IF j.title = <<>> \/ j.company = <<>> THEN "raise"
    ELSE IF ~env.credsOk THEN "raise"
    ELSE IF ~env.smtpOk THEN "raise"
    ELSE "sent"

(***************************************************************************)
(* ApplicationDispatcher.dispatch                                          *)
(***************************************************************************)
ColdFailNote == "Cold email failed: <e>"
AutoOffNote == "Manual review required (auto-apply off)"
WebFailNote == "Web form automation failed"
WebRaiseNote == "Web form automation failed: <e>"
ManualNote == "Manual review required"

Call(op, key, val, raised) == [op |-> op, key |-> key, val |-> val, raised |-> raised]

\* job.get('job_url', job.get('apply_url', ''))
StoreKey(j) == Get(j.job_url, Get(j.apply_url, ""))

ReviewFlagIgnored(c) == FALSE

ReviewBeforeApply(c) == Flag(c.review_before_apply, FALSE)

AutoApplyFlagIgnored(c) == TRUE

AutoApplyEnabled(c) == Flag(c.auto_apply_enabled, TRUE)

HasRecruiterEmail(j) == Truthy(j.recruiter_email)

HasJobUrlOnly(j) == Truthy(j.job_url)

HasApplyUrl(j) == Truthy(j.apply_url)

Ret(outcome, w, log) == [result |-> outcome, st |-> w.st, calls |-> log]

\* Lines 21-24.
ReviewBranch(j, st, env) ==
    LET w == append_review_row(st, j, env.apiOk)
        log == <<Call("append_review_row", StoreKey(j), "", w.raised)>>
    IN  IF w.raised THEN Ret("raise", w, log) ELSE Ret("review_queue", w, log)

\* The cold-email branch without its inner try: a failed send escapes.
ColdEmailNoInnerTry(j, st, env) ==
    LET sent == send_cold_email(j, env)
        m == IF sent = "sent" THEN mark_cold_email_sent(st, StoreKey(j), env.apiOk) ELSE Ok(st)
        log == <<Call("send_cold_email", Get(j.recruiter_email, ""), "", sent = "raise")>>
               \o (IF sent = "sent" THEN <<Call("mark_cold_email_sent", StoreKey(j), "Yes", m.raised)>>
                   ELSE <<>>)
    IN  IF sent = "raise" \/ m.raised THEN Ret("raise", m, log) ELSE Ret("cold_email", m, log)

\* Lines 25-38: the inner try, its handler, and the return after both.
ColdEmailBranch(j, st, env) ==
    LET sent == send_cold_email(j, env)
        m == IF sent = "sent" THEN mark_cold_email_sent(st, StoreKey(j), env.apiOk) ELSE Ok(st)
        logTry == <<Call("send_cold_email", Get(j.recruiter_email, ""), "", sent = "raise")>>
                  \o (IF sent = "sent" THEN <<Call("mark_cold_email_sent", StoreKey(j), "Yes", m.raised)>>
                      ELSE <<>>)
        caught == sent = "raise" \/ m.raised
        h == IF caught THEN update_notes(m.st, StoreKey(j), ColdFailNote, env.apiOk) ELSE m
        log == logTry \o (IF caught THEN <<Call("update_notes", StoreKey(j), ColdFailNote, h.raised)>>
                          ELSE <<>>)
    IN  IF caught /\ h.raised THEN Ret("raise", h, log) ELSE Ret("cold_email", h, log)

\* Lines 39-55.  env.engine is what JobApplication.apply_to_job does:
\* "True", "False", or "raise" (also a failure to construct or enter the context).
WebFormBranch(c, j, st, env) ==
    IF ~AutoApplyEnabled(c)
    THEN LET w == update_notes(st, StoreKey(j), AutoOffNote, env.apiOk)
             log == <<Call("update_notes", StoreKey(j), AutoOffNote, w.raised)>>
         IN  IF w.raised THEN Ret("raise", w, log) ELSE Ret("manual_review", w, log)
    ELSE LET r == env.engine
             m == IF r = "True" THEN mark_applied(st, StoreKey(j), env.apiOk)
                  ELSE IF r = "False" THEN update_notes(st, StoreKey(j), WebFailNote, env.apiOk)
                  ELSE Ok(st)
             logTry == <<Call("apply_to_job", Get(j.apply_url, ""), r, r = "raise")>>
                       \o (IF r = "True" THEN <<Call("mark_applied", StoreKey(j), "Yes", m.raised)>>
                           ELSE IF r = "False"
                                THEN <<Call("update_notes", StoreKey(j), WebFailNote, m.raised)>>
                                ELSE <<>>)
             caught == r = "raise" \/ m.raised
             h == IF caught THEN update_notes(m.st, StoreKey(j), WebRaiseNote, env.apiOk) ELSE m
             log == logTry \o (IF caught THEN <<Call("update_notes", StoreKey(j), WebRaiseNote, h.raised)>>
                               ELSE <<>>)
         IN  IF caught /\ h.raised THEN Ret("raise", h, log) ELSE Ret("web_form", h, log)

\* Lines 56-59.
ManualBranch(j, st, env) ==
    LET w == update_notes(st, StoreKey(j), ManualNote, env.apiOk)
        log == <<Call("update_notes", StoreKey(j), ManualNote, w.raised)>>
    IN  IF w.raised THEN Ret("raise", w, log) ELSE Ret("manual_review", w, log)

\* Lines 20-59: the body of the outer try.
DispatchBody(c, j, st, env) ==
    IF ReviewBeforeApply(c) THEN ReviewBranch(j, st, env)
    ELSE IF HasRecruiterEmail(j) THEN ColdEmailBranch(j, st, env)
    ELSE IF HasApplyUrl(j) THEN WebFormBranch(c, j, st, env)
    ELSE ManualBranch(j, st, env)

\* Lines 19-62: the outer handler turns any exception into 'error'.
dispatch(c, j, st, env) ==
    LET b == DispatchBody(c, j, st, env)
    IN  IF b.result = "raise" THEN [b EXCEPT !.result = "error"] ELSE b

(***************************************************************************)
(* De-duplication.                                                         *)
(***************************************************************************)
\* helpers.hash_job: the MD5 digest of the joined normalized fields; the
\* digest is taken as injective, so the joined string stands for it.
hash_job(title, company, location) ==
    lower(strip(title)) \o <<"_">> \o lower(strip(company)) \o <<"_">> \o lower(strip(location))

RECURSIVE KeepUnseen(_, _, _, _)
\* The loop shared by the three passes, over the jobs and their keys: keep
\* a job when its key is not one of skip and has not been seen, then
\* remember the key.
KeepUnseen(jobs, keys, skip, seen) ==
    IF jobs = <<>> THEN <<>>
    ELSE LET k == Head(keys)
         IN  IF k \notin skip /\ k \notin seen
             THEN <<Head(jobs)>> \o KeepUnseen(Tail(jobs), Tail(keys), skip, seen \cup {k})
             ELSE KeepUnseen(Tail(jobs), Tail(keys), skip, seen)

\* job.get('job_url', '')
UrlKey(j) == Get(j.job_url, "")
UrlKeys(jobs) == [i \in 1..Len(jobs) |-> UrlKey(jobs[i])]
HashKeys(jobs) == [i \in 1..Len(jobs) |-> hash_job(jobs[i].title, jobs[i].company, jobs[i].location)]

RemoveFirst(seq, x) ==
    LET i == CHOOSE i \in 1..Len(seq) : seq[i] = x /\ \A k \in 1..(i - 1) : seq[k] # x
    IN  SubSeq(seq, 1, i - 1) \o SubSeq(seq, i + 1, Len(seq))

RECURSIVE RemoveWhileIterating(_, _, _)
\* A pass that removes duplicates from the list it is iterating over.
RemoveWhileIterating(jobs, i, seen) ==
    IF i > Len(jobs) THEN jobs
    ELSE IF UrlKey(jobs[i]) \in seen
         THEN RemoveWhileIterating(RemoveFirst(jobs, jobs[i]), i + 1, seen)
         ELSE RemoveWhileIterating(jobs, i + 1, seen \cup {UrlKey(jobs[i])})

DedupInPlace(jobs) == RemoveWhileIterating(jobs, 1, {})

\* JobScraper.deduplicate_jobs (job_scraper.py; scraper_service.py has the
\* same body).
JobScraper_deduplicate_jobs(jobs) == KeepUnseen(jobs, UrlKeys(jobs), {}, {})

\* BaseJobSource.deduplicate_jobs
BaseJobSource_deduplicate_jobs(jobs) == KeepUnseen(jobs, UrlKeys(jobs), {""}, {})

\* The de-duplication pass at the end of EmailScanner.parse_job_email.
parse_job_email_dedup(jobs) == KeepUnseen(jobs, HashKeys(jobs), {}, {})

(***************************************************************************)
(* Result containers.  A card is the sequence, in document order, of the   *)
(* elements inside it; an element has a tag, classes, attribute names, a   *)
(* text and an href ("" when it has none).  A selector names a tag, a      *)
(* class, an attribute, or a fragment the href must contain; "" leaves     *)
(* that part open.                                                         *)
(***************************************************************************)
Sel(tag, cls, attr, hrefPart) == [tag |-> tag, cls |-> cls, attr |-> attr, hrefPart |-> hrefPart]

Matches(sel, e) ==
    /\ sel.tag = "" \/ e.tag = sel.tag
    /\ sel.cls = "" \/ sel.cls \in e.cls
    /\ sel.attr = "" \/ sel.attr \in e.attrs
    /\ sel.hrefPart = "" \/ sel.hrefPart = e.hrefPart

NoEl == [tag |-> "", cls |-> {}, attrs |-> {}, text |-> <<>>, href |-> "", hrefPart |-> ""]

\* card.query_selector(sel): the first matching element, or NoEl for None.
query_selector(card, sel) ==
    IF \E i \in 1..Len(card) : Matches(sel, card[i])
    THEN card[CHOOSE i \in 1..Len(card) :
                  /\ Matches(sel, card[i])
                  /\ \A k \in 1..(i - 1) : ~Matches(sel, card[k])]
    ELSE NoEl

RECURSIVE FirstElement(_, _)
\* for selector in selectors: el = query_selector(selector); if el: ...; break
FirstElement(card, sels) ==
    IF sels = <<>> THEN NoEl
    ELSE LET el == query_selector(card, Head(sels))
         IN  IF el # NoEl THEN el ELSE FirstElement(card, Tail(sels))

RECURSIVE FirstHref(_, _, _)
\* Lines 351-357: the href of the last link element looked at; the loop ends
\* at the first element whose href is non-empty.
FirstHref(card, sels, job_url) ==
    IF sels = <<>> THEN job_url
    ELSE LET el == query_selector(card, Head(sels))
         IN  IF el # NoEl /\ el.href # "" THEN el.href
             ELSE FirstHref(card, Tail(sels), IF el # NoEl THEN el.href ELSE job_url)

LinkedInTitleSels ==
    <<Sel("h3", "", "", ""), Sel("", "job-card-list__title", "", ""),
      Sel("", "", "data-job-title", ""), Sel("", "job-title", "", "")>>
LinkedInCompanySels ==
    <<Sel("", "job-card-container__company-name", "", ""), Sel("", "company-name", "", ""),
      Sel("", "", "data-company", ""), Sel("", "company", "", "")>>
LinkedInLocationSels ==
    <<Sel("", "job-card-container__metadata-item", "", ""), Sel("", "location", "", ""),
      Sel("", "", "data-location", ""), Sel("", "job-location", "", "")>>
LinkedInLinkSels ==
    <<Sel("a", "", "", ""), Sel("", "", "", "/jobs/view/"), Sel("", "job-card-list__title", "", "")>>

ScrapedJob(title, company, location, url) ==
    MkJobRecord(strip(title), strip(company), strip(location), url)

\* LinkedInSource.scrape_jobs, lines 326-369: the record of one card, or
\* no record.
LinkedInSource_card(card) ==
    LET title == FirstElement(card, LinkedInTitleSels).text
        company == FirstElement(card, LinkedInCompanySels).text
        location == FirstElement(card, LinkedInLocationSels).text
        job_url == FirstHref(card, LinkedInLinkSels, "")
    IN  IF title # <<>> /\ company # <<>>
        THEN <<ScrapedJob(title, company, location, job_url)>>
        ELSE <<>>

RECURSIVE LinkedInSource_cards(_)
LinkedInSource_cards(job_cards) ==
    IF job_cards = <<>> THEN <<>>
    ELSE LinkedInSource_card(Head(job_cards)) \o LinkedInSource_cards(Tail(job_cards))

NA == <<"N/A">>
TextOr(el, default) == IF el # NoEl THEN el.text ELSE default

\* JobScraper.is_remote_job of scraper_service.py: a remote indicator occurs
\* in the title, location or description; "remote" is one symbol of a text.
is_remote_job(title, location, description) ==
    \E t \in {title, location, description} : \E i \in 1..Len(t) : t[i] = "remote"

\* JobScraper.should_include_job; remoteOnly is whether the searched location
\* is in the configuration's remote_only list.
should_include_job(remoteOnly, is_remote) == IF remoteOnly THEN is_remote ELSE TRUE

\* scraper_service.py, JobScraper.scrape_linkedin_jobs, lines 594-631.
Service_card(card, remoteOnly) ==
    LET title_text == TextOr(query_selector(card, Sel("", "job-card-list__title", "", "")), NA)
        company_text ==
            TextOr(query_selector(card, Sel("", "job-card-container__company-name", "", "")), NA)
        location_text ==
            TextOr(query_selector(card, Sel("", "job-card-container__metadata-item", "", "")), NA)
        description_text ==
            TextOr(query_selector(card, Sel("", "job-card-container__description", "", "")), <<>>)
        is_remote == is_remote_job(title_text, location_text, description_text)
        job_url == query_selector(card, Sel("a", "job-card-list__title", "", "")).href
    IN  IF ~should_include_job(remoteOnly, is_remote) THEN <<>>
        ELSE IF job_url # ""
             THEN <<ScrapedJob(title_text, company_text, location_text, job_url)>>
             ELSE <<>>

\* urllib.parse.urljoin(base, href) for a base without a path: an empty href
\* gives the base, an absolute one itself, a rooted path is appended.
urljoin(base, href) ==
    IF href = "" THEN base
    ELSE IF href \in {"https://x/u2"} THEN href
    ELSE base \o href

IndeedBase == "https://www.indeed.com"

\* job_scraper.py, JobScraper._extract_indeed_job_data, lines 345-389.
Indeed_card(card) ==
    LET title == strip(TextOr(query_selector(card, Sel("h2", "jobTitle", "", "")), <<>>))
        company == strip(TextOr(query_selector(card, Sel("span", "companyName", "", "")), <<>>))
        location == strip(TextOr(query_selector(card, Sel("div", "companyLocation", "", "")), <<>>))
        link_elem == query_selector(card, Sel("a", "jcs-JobTitle", "", ""))
        job_url == IF link_elem # NoEl /\ "href" \in link_elem.attrs
                   THEN urljoin(IndeedBase, link_elem.href)
                   ELSE ""
    IN  MkJob(title, company, location, <<>>, job_url, NoKey, NoKey, NoKey)

RECURSIVE Indeed_cards(_)
\* job_scraper.py, JobScraper.scrape_indeed_jobs, lines 327-333.
Indeed_cards(job_cards) ==
    IF job_cards = <<>> THEN <<>>
    ELSE <<Indeed_card(Head(job_cards))>> \o Indeed_cards(Tail(job_cards))

RECURSIVE Service_cards(_, _)
Service_cards(job_cards, remoteOnly) ==
    IF job_cards = <<>> THEN <<>>
    ELSE Service_card(Head(job_cards), remoteOnly) \o Service_cards(Tail(job_cards), remoteOnly)

(***************************************************************************)
(* Inputs.                                                                 *)
(***************************************************************************)
Flags == {"True", "False", NoKey}
Configs == [review_before_apply : Flags, auto_apply_enabled : Flags]

NoJob == MkJob(<<>>, <<>>, <<>>, <<>>, NoKey, NoKey, NoKey, NoKey)

\* Jobs handed to dispatch directly, as the dispatcher's tests do.  Only the
\* cold-email sender reads the title: it is left out of jobs that have a
\* recruiter e-mail, and only of those.
DispatchJobs ==
    {j \in {MkJob(t, <<"c">>, <<>>, <<>>, ju, au, re, NoKey) :
                t \in {<<>>, <<"a">>}, ju \in {NoKey, "", "u1"},
                au \in {NoKey, "", "u1", "u2"}, re \in {NoKey, "", "r@x"}} :
        j.title = <<>> => j.recruiter_email = "r@x"}

Envs == [emailValid : BOOLEAN, credsOk : BOOLEAN, smtpOk : BOOLEAN, apiOk : BOOLEAN,
         engine : {"True", "False", "raise"}]

\* An answer nobody asks for is left at one value: the sender's without a
\* recruiter e-mail or after an earlier check of the sender failed, the
\* engine's with a recruiter e-mail or without an apply URL, the API's when
\* no sheet is connected.
EnvsFor(j, st) ==
    {env \in Envs :
        /\ ~Truthy(j.recruiter_email) => (env.emailValid /\ env.credsOk /\ env.smtpOk)
        /\ ~env.emailValid => env.credsOk
        /\ ~(env.emailValid /\ env.credsOk) => env.smtpOk
        /\ (Truthy(j.recruiter_email) \/ ~Truthy(j.apply_url)) => env.engine = "True"
        /\ (st.kind = Dummy \/ ~st.jobs_sheet) => env.apiOk}

\* Sheets the run may find: every row was written with some URL in column F.
OldRow(u) == JobsRow(<<"o">>, u)
InitRows == {<<>>, <<OldRow("u1")>>, <<OldRow(""), OldRow("u1")>>}
InitStores == [kind : {Real}, jobs_sheet : BOOLEAN, rows : InitRows, review : {<<>>}]
TestStores == [kind : {Real, Dummy}, jobs_sheet : BOOLEAN, rows : InitRows, review : {<<>>}]

InitDispIdle ==
    /\ job = NoJob
    /\ result = None
    /\ calls = <<>>
    /\ nCalls = 0
    /\ api = TRUE

InitRunIdle ==
    /\ runJobs = <<>>
    /\ runIdx = 0
    /\ runPc = "idle"
    /\ startUrls = {}
    /\ dispatched = <<>>

InitDedupIdle ==
    /\ dImpl = None
    /\ dIn = <<>>
    /\ dOut = <<>>
    /\ dOut2 = <<>>

InitScrapeIdle ==
    /\ cards = <<>>
    /\ scraped = <<>>
    /\ scrapedBy = None
    /\ perSource = <<>>

InitExtractIdle ==
    /\ container = <<>>
    /\ extracted = <<>>
    /\ extractedBy = None

NoJar == [exists |-> FALSE, age |-> 0, wellFormed |-> TRUE, cookies |-> {}]

InitCookieIdle ==
    /\ platform = None
    /\ jar = NoJar
    /\ ctxCookies = {}
    /\ loadRet = None

InitLoginIdle ==
    /\ loginImpl = None
    /\ lpc = "idle"
    /\ attempt = 0
    /\ events = <<>>
    /\ loginResult = None

InitCrawlIdle ==
    /\ crawlImpl = None
    /\ nPairs = 0
    /\ maxPages = 0
    /\ pairIdx = 0
    /\ pageIdx = 0
    /\ requests = <<>>
    /\ allJobs = <<>>
    /\ cpc = "idle"
    /\ crawlResult = None
    /\ crawlOut = <<>>

InitPlatIdle ==
    /\ runImpl = None
    /\ platforms = <<>>
    /\ existing = {}
    /\ platIdx = 0
    /\ platLog = <<>>
    /\ runAll = <<>>
    /\ ppc = "idle"
    /\ runOut = <<>>

InitEmailIdle ==
    /\ body = <<>>
    /\ parsedBy = None
    /\ parsed = <<>>

InitApplyIdle ==
    /\ appJob = NoJob
    /\ appPage = None
    /\ appCfg = [review_before_apply |-> NoKey, auto_apply_enabled |-> NoKey]
    /\ appStore = [kind |-> Real, jobs_sheet |-> FALSE, rows |-> <<>>, review |-> <<>>]
    /\ appBy = None
    /\ appRet = None
    /\ appSteps = <<>>

InitRetryIdle ==
    /\ rMax = 0
    /\ rBase = 1
    /\ rPc = "idle"
    /\ rAttempt = 0
    /\ rCalls = 0
    /\ rErrors = <<>>
    /\ rWaits = <<>>
    /\ rOut = None

InitBrowserIdle ==
    /\ bOp = None
    /\ bN = 0
    /\ bIdx = 0
    /\ bPc = "idle"
    /\ bLog = <<>>
    /\ bEnd = None

InitFetchIdle ==
    /\ fMsgs = <<>>
    /\ fIdx = 0
    /\ fPc = "idle"
    /\ fEmails = <<>>
    /\ fLog = <<>>
    /\ fEnd = None

InitThirdIdle ==
    /\ InitEmailIdle
    /\ InitApplyIdle
    /\ InitRetryIdle
    /\ InitBrowserIdle
    /\ InitFetchIdle

InitLaterIdle ==
    /\ InitExtractIdle
    /\ InitCookieIdle
    /\ InitLoginIdle
    /\ InitCrawlIdle
    /\ InitPlatIdle
    /\ InitThirdIdle

\* Everything the first four specifications, the crawl and the
\* multi-platform run hold, at rest.
InitEarlierIdle ==
    /\ cfg = [review_before_apply |-> NoKey, auto_apply_enabled |-> NoKey]
    /\ store = [kind |-> Real, jobs_sheet |-> FALSE, rows |-> <<>>, review |-> <<>>]
    /\ InitDispIdle
    /\ InitRunIdle
    /\ InitDedupIdle
    /\ InitScrapeIdle
    /\ InitCrawlIdle
    /\ InitPlatIdle
    /\ InitThirdIdle

earlierVars == <<dispVars, runVars, dedupVars, scrapeVars, crawlVars, platVars, thirdVars>>

\* Everything of the specifications up to the run over the platforms.
firstVars ==
    <<dispVars, runVars, dedupVars, scrapeVars, extractVars, cookieVars, loginVars,
      crawlVars, platVars>>

InitFirstIdle ==
    /\ cfg = [review_before_apply |-> NoKey, auto_apply_enabled |-> NoKey]
    /\ store = [kind |-> Real, jobs_sheet |-> FALSE, rows |-> <<>>, review |-> <<>>]
    /\ InitDispIdle
    /\ InitRunIdle
    /\ InitDedupIdle
    /\ InitScrapeIdle
    /\ InitExtractIdle
    /\ InitCookieIdle
    /\ InitLoginIdle
    /\ InitCrawlIdle
    /\ InitPlatIdle

(***************************************************************************)
(* Specification Spec: a dispatcher built over some configuration and      *)
(* sheet, called on any job with any behaviour of its collaborators.       *)
(***************************************************************************)
Init ==
    /\ cfg \in Configs
    /\ store \in InitStores
    /\ InitDispIdle
    /\ InitRunIdle
    /\ InitDedupIdle
    /\ InitScrapeIdle
    /\ InitLaterIdle

Dispatch ==
    /\ nCalls < MaxDispatches
    /\ \E j \in DispatchJobs : \E env \in EnvsFor(j, store) :
          LET r == dispatch(cfg, j, store, env)
          IN  /\ job' = j
              /\ result' = r.result
              /\ calls' = r.calls
              /\ store' = r.st
              /\ api' = env.apiOk
    /\ nCalls' = nCalls + 1
    /\ UNCHANGED <<cfg, runVars, dedupVars, scrapeVars, laterVars>>

Next == Dispatch

Spec == Init /\ [][Next]_vars

(***************************************************************************)
(* Specification SpecTest: the same dispatcher with either store class     *)
(* behind it, as in test_application_dispatcher.py.                        *)
(***************************************************************************)
InitTest ==
    /\ cfg \in Configs
    /\ store \in TestStores
    /\ InitDispIdle
    /\ InitRunIdle
    /\ InitDedupIdle
    /\ InitScrapeIdle
    /\ InitLaterIdle

SpecTest == InitTest /\ [][Next]_vars

(***************************************************************************)
(* Specification SpecRun: run_auto_apply.  cfg starts as the auto_apply    *)
(* section of the configuration file (auto_apply_enabled standing for its  *)
(* key enabled) and becomes dispatcher_config when the run starts.         *)
(***************************************************************************)
\* Jobs the e-mail parsers build: title and company non-empty, job_url and
\* apply_url always present, apply_url the apply link or else job_url, and
\* neither a recruiter_email nor a url key.
EmailJob(t, ju, au) == MkJob(t, <<"c">>, <<>>, <<>>, ju, IF au = "" THEN ju ELSE au, NoKey, NoKey)
EmailJobs == {EmailJob(t, ju, au) : t \in {<<"a">>, <<"b">>}, ju \in {"", "u1"}, au \in {"", "a1"}}

\* No e-mailed job has a recruiter e-mail, so the run never reaches the
\* cold-email sender: its three inputs are left at one value.
RunEnvs == {env \in Envs : env.emailValid /\ env.credsOk /\ env.smtpOk}

InitRun ==
    /\ cfg \in Configs
    /\ store \in InitStores
    /\ InitDispIdle
    /\ runJobs = <<>>
    /\ runIdx = 0
    /\ runPc = "start"
    /\ startUrls = {}
    /\ dispatched = <<>>
    /\ InitDedupIdle
    /\ InitScrapeIdle
    /\ InitLaterIdle

\* Lines 32-77: configuration, user profile, e-mail scan, dispatcher.
RunStart ==
    /\ runPc = "start"
    /\ \E profileOk \in BOOLEAN, found \in SeqsUpTo(EmailJobs, MaxRunJobs) :
          LET enabled == Flag(cfg.auto_apply_enabled, TRUE)
              review == Flag(cfg.review_before_apply, FALSE)
          IN  IF ~enabled \/ ~profileOk \/ found = <<>>
              THEN /\ runPc' = "exit"
                   /\ UNCHANGED <<cfg, runJobs, startUrls>>
              ELSE /\ runPc' = "loop"
                   /\ runJobs' = found
                   /\ cfg' = [auto_apply_enabled |-> PyBool(enabled),
                              review_before_apply |-> PyBool(review)]
                   /\ startUrls' = get_existing_job_urls(store, TRUE)
    /\ UNCHANGED <<store, job, result, calls, nCalls, api, runIdx, dispatched,
                   dedupVars, scrapeVars, laterVars>>

\* Lines 81-104: one iteration of the loop over the jobs.
RunJob ==
    /\ runPc = "loop"
    /\ runIdx < Len(runJobs)
    /\ \E env \in RunEnvs, appendOk \in BOOLEAN :
          LET j == runJobs[runIdx + 1]
              a == append_job_row(store, j, appendOk)
              r == dispatch(cfg, j, a.st, env)
              \* the handler of lines 94-104, its own failure passed over
              e == update_notes(a.st, StoreKey(j), "Processing error: <e>", env.apiOk)
          IN  /\ job' = j
              /\ api' = (appendOk /\ env.apiOk)
              /\ IF a.raised
                 THEN /\ store' = e.st
                      /\ UNCHANGED <<result, calls, nCalls, dispatched>>
                 ELSE /\ store' = r.st
                      /\ result' = r.result
                      /\ calls' = r.calls
                      /\ nCalls' = nCalls + 1
                      /\ dispatched' = Append(dispatched, j)
    /\ runIdx' = runIdx + 1
    /\ UNCHANGED <<cfg, runJobs, runPc, startUrls, dedupVars, scrapeVars, laterVars>>

\* Line 106.
RunDone ==
    /\ runPc = "loop"
    /\ runIdx = Len(runJobs)
    /\ runPc' = "done"
    /\ UNCHANGED <<dispVars, runJobs, runIdx, startUrls, dispatched, dedupVars, scrapeVars, laterVars>>

NextRun == RunStart \/ RunJob \/ RunDone

SpecRun == InitRun /\ [][NextRun]_vars

(***************************************************************************)
(* Specification SpecDedup: each de-duplication pass applied to a job      *)
(* list, and applied again to its own output.                              *)
(***************************************************************************)
DedupJobs ==
    {MkJob(t, <<"c">>, <<>>, d, ju, ju, NoKey, NoKey) :
        t \in {<<"a">>, <<"A", " ">>, <<"b">>}, d \in {<<>>, <<"d">>}, ju \in {"", "u1", "u2"}}

InitDedup ==
    /\ cfg = [review_before_apply |-> NoKey, auto_apply_enabled |-> NoKey]
    /\ store = [kind |-> Real, jobs_sheet |-> FALSE, rows |-> <<>>, review |-> <<>>]
    /\ InitDispIdle
    /\ InitRunIdle
    /\ dImpl = None
    /\ dIn \in SeqsUpTo(DedupJobs, MaxDedupLen)
    /\ dOut = <<>>
    /\ dOut2 = <<>>
    /\ InitScrapeIdle
    /\ InitLaterIdle

DedupJobScraper ==
    /\ dImpl = None
    /\ dImpl' = "JobScraper"
    /\ dOut' = JobScraper_deduplicate_jobs(dIn)
    /\ dOut2' = JobScraper_deduplicate_jobs(dOut')
    /\ UNCHANGED <<dIn, dispVars, runVars, scrapeVars, laterVars>>

DedupBaseJobSource ==
    /\ dImpl = None
    /\ dImpl' = "BaseJobSource"
    /\ dOut' = BaseJobSource_deduplicate_jobs(dIn)
    /\ dOut2' = BaseJobSource_deduplicate_jobs(dOut')
    /\ UNCHANGED <<dIn, dispVars, runVars, scrapeVars, laterVars>>

DedupParseJobEmail ==
    /\ dImpl = None
    /\ dImpl' = "parse_job_email"
    /\ dOut' = parse_job_email_dedup(dIn)
    /\ dOut2' = parse_job_email_dedup(dOut')
    /\ UNCHANGED <<dIn, dispVars, runVars, scrapeVars, laterVars>>

NextDedup == DedupJobScraper \/ DedupBaseJobSource \/ DedupParseJobEmail

SpecDedup == InitDedup /\ [][NextDedup]_vars

(***************************************************************************)
(* Specification SpecScrape: one result page of LinkedIn cards, read by    *)
(* LinkedInSource.scrape_jobs or by scraper_service's scrape_linkedin_jobs,*)
(* and the de-duplication pass that follows.                               *)
(***************************************************************************)
El(tag, cls, text, href, hrefPart) ==
    [tag |-> tag, cls |-> cls, attrs |-> IF href = "" THEN {} ELSE {"href"},
     text |-> text, href |-> href, hrefPart |-> hrefPart]

\* Specimen elements, in document order.
CardElements ==
    <<El("a", {}, <<>>, "", ""),
      El("h3", {}, <<"t">>, "", ""),
      El("a", {"job-card-list__title"}, <<"t", " ">>, "u1", "/jobs/view/"),
      El("span", {"job-card-container__company-name"}, <<" ", "c">>, "", ""),
      El("span", {"company"}, <<"c">>, "", ""),
      El("li", {"job-card-container__metadata-item"}, <<"l">>, "", "")>>

RECURSIVE Pick(_, _)
\* The elements of CardElements at the indices in S, in document order.
Pick(S, i) ==
    IF i > Len(CardElements) THEN <<>>
    ELSE (IF i \in S THEN <<CardElements[i]>> ELSE <<>>) \o Pick(S, i + 1)

Cards == {Pick(S, 1) : S \in SUBSET (1..Len(CardElements))}

\* Specimen elements of an Indeed result card, in document order.
IndeedElements ==
    <<El("h2", {"jobTitle"}, <<"t">>, "", ""),
      El("h2", {"jobTitle"}, <<"s", " ">>, "", ""),
      El("span", {"companyName"}, <<"c">>, "", ""),
      El("div", {"companyLocation"}, <<"l">>, "", ""),
      El("a", {"jcs-JobTitle"}, <<>>, "/u1", ""),
      El("a", {"jcs-JobTitle"}, <<>>, "https://x/u2", "")>>

RECURSIVE PickIndeed(_, _)
PickIndeed(S, i) ==
    IF i > Len(IndeedElements) THEN <<>>
    ELSE (IF i \in S THEN <<IndeedElements[i]>> ELSE <<>>) \o PickIndeed(S, i + 1)

IndeedCards == {PickIndeed(S, 1) : S \in SUBSET (1..Len(IndeedElements))}

\* The page is a LinkedIn result page, or an Indeed one.
IsLinkedInPage(page) == \A i \in 1..Len(page) : page[i] \in Cards
IsIndeedPage(page) == \A i \in 1..Len(page) : page[i] \in IndeedCards

InitScrape ==
    /\ cfg = [review_before_apply |-> NoKey, auto_apply_enabled |-> NoKey]
    /\ store = [kind |-> Real, jobs_sheet |-> FALSE, rows |-> <<>>, review |-> <<>>]
    /\ InitDispIdle
    /\ InitRunIdle
    /\ InitDedupIdle
    /\ InitLaterIdle
    /\ cards \in SeqsUpTo(Cards, MaxCards) \cup SeqsUpTo(IndeedCards, MaxCards)
    /\ scraped = <<>>
    /\ scrapedBy = None
    /\ perSource = <<>>

\* LinkedInSource.scrape_jobs returns what it collected: no pass follows.
ScrapeLinkedInSource ==
    /\ scrapedBy = None
    /\ IsLinkedInPage(cards)
    /\ scrapedBy' = "LinkedInSource"
    /\ scraped' = LinkedInSource_cards(cards)
    /\ perSource' = scraped'
    /\ UNCHANGED <<cards, dispVars, runVars, dedupVars, laterVars>>

\* job_scraper.py: scrape_indeed_jobs ends with self.deduplicate_jobs.
ScrapeIndeed ==
    /\ scrapedBy = None
    /\ IsIndeedPage(cards)
    /\ scrapedBy' = "job_scraper indeed"
    /\ scraped' = Indeed_cards(cards)
    /\ perSource' = JobScraper_deduplicate_jobs(scraped')
    /\ UNCHANGED <<cards, dispVars, runVars, dedupVars, laterVars>>

\* scraper_service.py: get_jobs de-duplicates what scrape_linkedin_jobs gave.
ScrapeService ==
    /\ scrapedBy = None
    /\ IsLinkedInPage(cards)
    /\ \E remoteOnly \in BOOLEAN :
          /\ scrapedBy' = IF remoteOnly THEN "scraper_service remote" ELSE "scraper_service"
          /\ scraped' = Service_cards(cards, remoteOnly)
    /\ perSource' = JobScraper_deduplicate_jobs(scraped')
    /\ UNCHANGED <<cards, dispVars, runVars, dedupVars, laterVars>>

NextScrape == ScrapeLinkedInSource \/ ScrapeService \/ ScrapeIndeed

SpecScrape == InitScrape /\ [][NextScrape]_vars

(***************************************************************************)
(* Specification SpecExtract: one field read from one container, by the    *)
(* selector loop of LinkedInSource.scrape_jobs or by try_select of         *)
(* LinkedInScraper._extract_job_data.                                      *)
(***************************************************************************)
LinkedInScraperTitleSels ==
    <<Sel("", "job-details-jobs-unified-top-card__job-title", "", ""),
      Sel("", "top-card-layout__title", "", ""),
      Sel("h2", "top-card-layout__title", "", ""),
      Sel("h1", "", "", "")>>

RECURSIVE try_select(_, _)
\* linkedin_scraper.py, lines 361-369: find_element raises when nothing
\* matches, which the loop passes over.
try_select(job_details, selectors) ==
    IF selectors = <<>> THEN NA
    ELSE LET el == query_selector(job_details, Head(selectors))
         IN  IF el # NoEl /\ strip(el.text) # <<>> THEN strip(el.text)
             ELSE try_select(job_details, Tail(selectors))

\* Specimen elements of a container, in document order: for each extractor
\* one that matches its first title locator and has no text, and ones that
\* match lower-ranked locators.
ExtractElements ==
    <<El("h3", {}, <<>>, "", ""),
      El("a", {"job-card-list__title"}, <<"t", " ">>, "", ""),
      El("span", {"job-title"}, <<"s">>, "", ""),
      El("div", {"job-details-jobs-unified-top-card__job-title"}, <<" ">>, "", ""),
      El("h2", {"top-card-layout__title"}, <<"v">>, "", ""),
      El("h1", {}, <<" ", "w">>, "", "")>>

RECURSIVE PickExtract(_, _)
PickExtract(S, i) ==
    IF i > Len(ExtractElements) THEN <<>>
    ELSE (IF i \in S THEN <<ExtractElements[i]>> ELSE <<>>) \o PickExtract(S, i + 1)

Containers == {PickExtract(S, 1) : S \in SUBSET (1..Len(ExtractElements))}

InitExtract ==
    /\ InitEarlierIdle
    /\ container \in Containers
    /\ extracted = <<>>
    /\ extractedBy = None
    /\ InitCookieIdle
    /\ InitLoginIdle

\* job_sources.py, lines 329-334 and 362: the title of the record.
ExtractLinkedInSource ==
    /\ extractedBy = None
    /\ extractedBy' = "LinkedInSource"
    /\ extracted' = strip(FirstElement(container, LinkedInTitleSels).text)
    /\ UNCHANGED <<container, earlierVars, cookieVars, loginVars>>

\* linkedin_scraper.py, lines 371-376: the title of the record.
ExtractTrySelect ==
    /\ extractedBy = None
    /\ extractedBy' = "try_select"
    /\ extracted' = try_select(container, LinkedInScraperTitleSels)
    /\ UNCHANGED <<container, earlierVars, cookieVars, loginVars>>

NextExtract == ExtractLinkedInSource \/ ExtractTrySelect

SpecExtract == InitExtract /\ [][NextExtract]_vars

(***************************************************************************)
(* Specification SpecCookies: JobScraper.load_cookies of scraper_service   *)
(* over a cookie file of any age and content.  Ages are whole days.        *)
(***************************************************************************)
Platforms == {"linkedin", "indeed", "glassdoor"}

max_age_days == 7

NeverStale(file) == ~file.exists

\* scraper_service.py, is_cookie_file_stale, lines 43-57.
is_cookie_file_stale(file) ==
    IF ~file.exists THEN TRUE
    ELSE file.age > max_age_days

\* scraper_service.py, JobScraper.load_cookies, lines 138-169: the value
\* returned and the cookies of the context afterwards.  json.load raises on
\* a malformed file, which the method turns into False.
load_cookies(file, ctx) ==
    IF is_cookie_file_stale(file) THEN [ret |-> "False", ctx |-> ctx]
    ELSE IF ~file.wellFormed THEN [ret |-> "False", ctx |-> ctx]
    ELSE IF file.cookies = {} THEN [ret |-> "False", ctx |-> ctx]
    ELSE [ret |-> "True", ctx |-> ctx \cup file.cookies]

Jars ==
    {NoJar} \cup [exists : {TRUE}, age : 0..MaxJarAge, wellFormed : BOOLEAN,
                  cookies : {{}, {"c1", "c2"}}]

InitCookies ==
    /\ InitEarlierIdle
    /\ InitExtractIdle
    /\ platform \in Platforms
    /\ jar \in Jars
    /\ ctxCookies = {}
    /\ loadRet = None
    /\ InitLoginIdle

LoadCookies ==
    /\ loadRet = None
    /\ LET r == load_cookies(jar, ctxCookies)
       IN  /\ loadRet' = r.ret
           /\ ctxCookies' = r.ctx
    /\ UNCHANGED <<platform, jar, earlierVars, extractVars, loginVars>>

NextCookies == LoadCookies

SpecCookies == InitCookies /\ [][NextCookies]_vars

(***************************************************************************)
(* Specification SpecLogin: one call of a login function.  The functions   *)
(* are login_to_linkedin, login_to_indeed and login_to_glassdoor of        *)
(* scraper_service.JobScraper, the first under its tenacity retry          *)
(* decorator, and login_to_linkedin of job_scraper.JobScraper.  An attempt *)
(* is one run of the function's body; page is what the site shows during   *)
(* it.  events lists, with the attempt's number, the cookie load, the      *)
(* credential submission, the CAPTCHA detection, the success indicator and *)
(* the save of the jar, and, with its length in seconds, each wait.        *)
(***************************************************************************)
Ev(ev, n) == [ev |-> ev, n |-> n]

ServiceLinkedIn == "scraper_service.login_to_linkedin"
ServiceIndeed == "scraper_service.login_to_indeed"
ServiceGlassdoor == "scraper_service.login_to_glassdoor"
ScraperLinkedIn == "job_scraper.login_to_linkedin"
LoginImpls == {ServiceLinkedIn, ServiceIndeed, ServiceGlassdoor, ScraperLinkedIn}

PlatformOf(impl) ==
    CASE impl = ServiceIndeed -> "indeed"
      [] impl = ServiceGlassdoor -> "glassdoor"
      [] OTHER -> "linkedin"

\* What the site shows during an attempt: whether the loaded cookies pass
\* verify_login, whether the login page carries a CAPTCHA frame, and what
\* follows the submission: an error message, a CAPTCHA frame, a success
\* indicator, or none of them before the timeout.
Pages ==
    [verifyOk : BOOLEAN, captchaBefore : BOOLEAN,
     after : {"error", "captcha", "indicator", "none"}]

\* scraper_service.py, JobScraper.save_cookies, lines 121-136: the file is
\* written anew with the cookies of the context.
save_cookies(ctx) == [exists |-> TRUE, age |-> 0, wellFormed |-> TRUE, cookies |-> ctx]

Returned(log, file, ctx) == [ret |-> "return", log |-> log, jar |-> file, ctx |-> ctx]
Raised(log, file, ctx) == [ret |-> "raise", log |-> log, jar |-> file, ctx |-> ctx]

SaveUnverified(file, ctx, page, n) ==
    Returned(<<Ev("submit", n), Ev("save", n)>>, save_cookies(ctx \cup {"session"}),
             ctx \cup {"session"})

\* Lines 262-363 of login_to_linkedin, from the fresh login on.
LinkedInFreshLogin(file, ctx, page, n) ==
    IF page.captchaBefore THEN Raised(<<Ev("captcha", n)>>, file, ctx)
    ELSE IF page.after = "error" THEN Raised(<<Ev("submit", n)>>, file, ctx)
    ELSE IF page.after = "captcha"
         THEN Raised(<<Ev("submit", n), Ev("captcha", n)>>, file, ctx)
    ELSE IF page.after = "none" THEN Raised(<<Ev("submit", n)>>, file, ctx)
    ELSE Returned(<<Ev("submit", n), Ev("indicator", n), Ev("save", n)>>,
                  save_cookies(ctx \cup {"session"}), ctx \cup {"session"})

\* Lines 396-425 of login_to_indeed and 449-478 of login_to_glassdoor.
PlainFreshLogin(file, ctx, page, n) ==
    IF page.after # "indicator" THEN Raised(<<Ev("submit", n)>>, file, ctx)
    ELSE Returned(<<Ev("submit", n), Ev("indicator", n), Ev("save", n)>>,
                  save_cookies(ctx \cup {"session"}), ctx \cup {"session"})

Prefixed(log, r) == [r EXCEPT !.log = log \o @]

\* The body of a scraper_service login: the cached cookies first, lines
\* 254-260, 385-391 and 438-444, then the fresh login.
ServiceLoginBody(impl, file, ctx, page, n) ==
    LET l == load_cookies(file, ctx)
        loaded == <<Ev("load", n)>>
    IN  IF l.ret = "True" /\ page.verifyOk
        THEN Returned(loaded \o <<Ev("verified", n)>>, file, l.ctx)
        ELSE Prefixed(IF l.ret = "True" THEN loaded ELSE <<>>,
                      IF impl = ServiceLinkedIn
                      THEN LinkedInFreshLogin(file, l.ctx, page, n)
                      ELSE PlainFreshLogin(file, l.ctx, page, n))

\* job_scraper.py, login_to_linkedin, lines 69-81: one pass of the loop body.
ScraperLoginBody(file, ctx, page, n) ==
    IF page.after = "indicator"
    THEN Returned(<<Ev("submit", n), Ev("indicator", n)>>, file, ctx \cup {"session"})
    ELSE Raised(<<Ev("submit", n)>>, file, ctx)

LoginBody(impl, file, ctx, page, n) ==
    IF impl = ScraperLinkedIn THEN ScraperLoginBody(file, ctx, page, n)
    ELSE ServiceLoginBody(impl, file, ctx, page, n)

stop_after_attempt == 3
wait_multiplier == 1
wait_min == 4
wait_max == 10
max_retries == 3

Max(a, b) == IF a >= b THEN a ELSE b
Min(a, b) == IF a <= b THEN a ELSE b

RECURSIVE Pow2(_)
Pow2(k) == IF k = 0 THEN 1 ELSE 2 * Pow2(k - 1)

\* tenacity's wait_exponential(multiplier, min, max) after the attempt of the
\* given number: multiplier * 2 ** (attempt_number - 1), kept within min and
\* max.
wait_exponential(attempt_number) ==
    Max(Max(0, wait_min), Min(wait_multiplier * Pow2(attempt_number - 1), wait_max))

\* Whether a raised attempt is followed by another one: the decorator of
\* scraper_service.py lines 229-234 retries on every exception; the loop of
\* job_scraper.py line 68 goes on to the next index; login_to_indeed and
\* login_to_glassdoor have neither.
Retries(impl, n) ==
    CASE impl = ServiceLinkedIn -> n < stop_after_attempt
      [] impl = ScraperLinkedIn -> n < max_retries
      [] OTHER -> FALSE

\* The seconds slept after the raised attempt n; 0 for no sleep.
WaitAfter(impl, n) ==
    CASE impl = ServiceLinkedIn -> IF n < stop_after_attempt THEN wait_exponential(n) ELSE 0
      [] impl = ScraperLinkedIn -> 2 * n
      [] OTHER -> 0

\* The pages of an attempt, an answer nobody asks for left at one value.
PagesFor(impl, file) ==
    {page \in Pages :
        /\ (impl = ScraperLinkedIn \/ is_cookie_file_stale(file) \/ file.cookies = {})
                => page.verifyOk
        /\ impl # ServiceLinkedIn => ~page.captchaBefore
        /\ page.captchaBefore => page.after = "none"}

LoginJars == {NoJar} \cup {f \in Jars : f.exists /\ f.wellFormed /\ f.cookies # {}
                                        /\ f.age \in {0, MaxJarAge}}

InitLogin ==
    /\ InitEarlierIdle
    /\ InitExtractIdle
    /\ loginImpl \in LoginImpls
    /\ platform = PlatformOf(loginImpl)
    /\ jar \in LoginJars
    /\ ctxCookies = {}
    /\ loadRet = None
    /\ lpc = "call"
    /\ attempt = 1
    /\ events = <<>>
    /\ loginResult = None

\* One run of the function's body.
LoginAttempt ==
    /\ lpc = "call"
    /\ \E page \in PagesFor(loginImpl, jar) :
          LET r == LoginBody(loginImpl, jar, ctxCookies, page, attempt)
          IN  /\ events' = events \o r.log
              /\ jar' = r.jar
              /\ ctxCookies' = r.ctx
              /\ IF r.ret = "return"
                 THEN lpc' = "done" /\ loginResult' = "ok"
                 ELSE lpc' = "raised" /\ loginResult' = loginResult
    /\ UNCHANGED <<loginImpl, attempt, platform, loadRet, earlierVars, extractVars>>

\* The attempt raised and another one follows, after the wait.
LoginRetry ==
    /\ lpc = "raised"
    /\ Retries(loginImpl, attempt)
    /\ events' = Append(events, Ev("wait", WaitAfter(loginImpl, attempt)))
    /\ attempt' = attempt + 1
    /\ lpc' = "call"
    /\ UNCHANGED <<loginImpl, loginResult, cookieVars, earlierVars, extractVars>>

\* The attempt raised and was the last: the exception leaves the function.
LoginFail ==
    /\ lpc = "raised"
    /\ ~Retries(loginImpl, attempt)
    /\ events' = IF WaitAfter(loginImpl, attempt) > 0
                 THEN Append(events, Ev("wait", WaitAfter(loginImpl, attempt)))
                 ELSE events
    /\ loginResult' = "raise"
    /\ lpc' = "done"
    /\ UNCHANGED <<loginImpl, attempt, cookieVars, earlierVars, extractVars>>

NextLogin == LoginAttempt \/ LoginRetry \/ LoginFail

SpecLogin == InitLogin /\ [][NextLogin]_vars

(***************************************************************************)
(* Specification SpecCrawl: the paginated crawl of one platform, for any   *)
(* number of (keyword, location) pairs and any max_pages, over pages that  *)
(* show an anti-bot marker, fail to load, or carry result containers.      *)
(* What a container turns into is the matter of SpecScrape; here every     *)
(* container is one its extractor keeps, with the link of a posting of its *)
(* own.                                                                    *)
(***************************************************************************)
SourceLinkedIn == "job_sources.LinkedInSource.scrape_jobs"
SourceIndeed == "job_sources.IndeedSource.scrape_jobs"
ScraperIndeed == "job_scraper.scrape_indeed_jobs"
ServiceLinkedInJobs == "scraper_service.scrape_linkedin_jobs"
CrawlImpls == {SourceLinkedIn, SourceIndeed, ScraperIndeed, ServiceLinkedInJobs}

\* job_scraper.py, scrape_indeed_jobs: if len(job_cards) < 10: break
full_page == 10

\* The numbers of containers a page may carry: none, one short of a full
\* page, a full page.
Counts == {0, full_page - 1, full_page}

\* What a requested page shows: an anti-bot marker (a 403 for the requests
\* call of job_scraper.py), an exception of the navigation, or n result
\* containers and, for the crawl that asks, a Next button.
PageOutcome(kind, n, next) == [kind |-> kind, n |-> n, next |-> next]

PageOutcomes(impl) ==
    {PageOutcome("antibot", 0, FALSE), PageOutcome("raise", 0, FALSE)}
    \cup {PageOutcome("ok", c, b) :
            c \in Counts, b \in IF impl = ServiceLinkedInJobs THEN BOOLEAN ELSE {FALSE}}

CardUrl(pair, page, k) ==
    "/viewjob?jk=" \o ToString(pair) \o "." \o ToString(page) \o "." \o ToString(k)

\* The records of the n containers of a page.
PagePostings(pair, page, n) ==
    [k \in 1..n |-> [pair |-> pair, page |-> page, card |-> k,
                     job_url |-> CardUrl(pair, page, k)]]

\* Whether the crawl logs in before the first page: job_sources.py line 264,
\* scraper_service.py line 573.
LogsIn(impl) == impl \in {SourceLinkedIn, ServiceLinkedInJobs}

\* One pass of the page loop: the records it appends to all_jobs and where
\* the crawl goes from there: to the next page index ("next"), out of the page
\* loop of the pair ("break"), out of all loops to the function's end
\* ("end"), or out of the function by an exception ("raise").
\*   job_sources.py, lines 273-376 and 420-523: the marker and the missing
\*     containers continue, the page's exception is caught and continues.
\*   job_scraper.py, lines 311-339: a 403 continues, a short page breaks, an
\*     exception leaves the loop for the handler around it.
\*   scraper_service.py, lines 587-646: wait_for_selector raises on a page
\*     without containers, marker or not; the loop breaks without a Next
\*     button or at the last index; every exception is re-raised.
PageStep(impl, o, pair, page, m) ==
    CASE impl \in {SourceLinkedIn, SourceIndeed} ->
            [add |-> IF o.kind = "ok" THEN PagePostings(pair, page, o.n) ELSE <<>>,
             to |-> "next"]
      [] impl = ScraperIndeed ->
            IF o.kind = "antibot" THEN [add |-> <<>>, to |-> "next"]
            ELSE IF o.kind = "raise" THEN [add |-> <<>>, to |-> "end"]
            ELSE [add |-> PagePostings(pair, page, o.n),
                  to |-> IF o.n < full_page THEN "break" ELSE "next"]
      [] OTHER ->
            IF o.kind # "ok" \/ o.n = 0 THEN [add |-> <<>>, to |-> "raise"]
            ELSE [add |-> PagePostings(pair, page, o.n),
                  to |-> IF ~o.next \/ page = m THEN "break" ELSE "next"]

\* The position after a pass: the next page of the pair, the first page of
\* the next pair, or the end of the loops.
After(to, pair, page, np, m) ==
    IF to = "next" /\ page < m THEN [pc |-> "page", pair |-> pair, page |-> page + 1]
    ELSE IF to \in {"next", "break"} /\ pair < np
         THEN [pc |-> "page", pair |-> pair + 1, page |-> 1]
    ELSE IF to = "raise" THEN [pc |-> "done", pair |-> pair, page |-> page]
    ELSE [pc |-> "return", pair |-> pair, page |-> page]

InitCrawl ==
    /\ cfg = [review_before_apply |-> NoKey, auto_apply_enabled |-> NoKey]
    /\ store = [kind |-> Real, jobs_sheet |-> FALSE, rows |-> <<>>, review |-> <<>>]
    /\ InitDispIdle
    /\ InitRunIdle
    /\ InitDedupIdle
    /\ InitScrapeIdle
    /\ InitExtractIdle
    /\ InitCookieIdle
    /\ InitLoginIdle
    /\ InitPlatIdle
    /\ InitThirdIdle
    /\ crawlImpl \in CrawlImpls
    /\ nPairs \in IF crawlImpl = ScraperIndeed THEN {1} ELSE 0..MaxPairs
    /\ maxPages \in 1..MaxPages
    /\ pairIdx = 0
    /\ pageIdx = 0
    /\ requests = <<>>
    /\ allJobs = <<>>
    /\ cpc = "start"
    /\ crawlResult = None
    /\ crawlOut = <<>>

otherThanCrawl ==
    <<dispVars, runVars, dedupVars, scrapeVars, extractVars, cookieVars, loginVars, platVars,
      thirdVars>>

\* Up to the first page: the login of the crawls that log in, which raises
\* when it fails, and the entry into the loops.
CrawlStart ==
    /\ cpc = "start"
    /\ \E loggedIn \in IF LogsIn(crawlImpl) THEN BOOLEAN ELSE {TRUE} :
          IF ~loggedIn
          THEN /\ cpc' = "done"
               /\ crawlResult' = "raise"
               /\ UNCHANGED <<pairIdx, pageIdx>>
          ELSE /\ cpc' = IF nPairs = 0 THEN "return" ELSE "page"
               /\ pairIdx' = IF nPairs = 0 THEN 0 ELSE 1
               /\ pageIdx' = IF nPairs = 0 THEN 0 ELSE 1
               /\ crawlResult' = crawlResult
    /\ UNCHANGED <<crawlImpl, nPairs, maxPages, requests, allJobs, crawlOut, otherThanCrawl>>

\* One pass of the page loop.
CrawlPage ==
    /\ cpc = "page"
    /\ \E o \in PageOutcomes(crawlImpl) :
          LET r == PageStep(crawlImpl, o, pairIdx, pageIdx, maxPages)
              a == After(r.to, pairIdx, pageIdx, nPairs, maxPages)
          IN  /\ requests' = Append(requests, [pair |-> pairIdx, page |-> pageIdx,
                                                  kind |-> o.kind, n |-> o.n])
              /\ allJobs' = allJobs \o r.add
              /\ cpc' = a.pc
              /\ pairIdx' = a.pair
              /\ pageIdx' = a.page
              /\ crawlResult' = IF r.to = "raise" THEN "raise" ELSE crawlResult
    /\ UNCHANGED <<crawlImpl, nPairs, maxPages, crawlOut, otherThanCrawl>>

\* After the loops: job_scraper.py line 341 de-duplicates, the others return
\* all_jobs as it is.
CrawlReturn ==
    /\ cpc = "return"
    /\ crawlOut' = IF crawlImpl = ScraperIndeed THEN JobScraper_deduplicate_jobs(allJobs)
                   ELSE allJobs
    /\ crawlResult' = "return"
    /\ cpc' = "done"
    /\ UNCHANGED <<crawlImpl, nPairs, maxPages, pairIdx, pageIdx, requests, allJobs,
                   otherThanCrawl>>

NextCrawl == CrawlStart \/ CrawlPage \/ CrawlReturn

SpecCrawl == InitCrawl /\ [][NextCrawl]_vars

(***************************************************************************)
(* Specification SpecPlatforms: a run over several platforms, each of      *)
(* which logs in and scrapes, fails, or returns some records.              *)
(***************************************************************************)
ServiceGetJobs == "scraper_service.JobScraper.get_jobs"
MainScrapeMode == "main.JobAgent.scrape_mode"
ScrapeAllJobs == "job_scraper.scrape_all_jobs"
RunImpls == {ServiceGetJobs, MainScrapeMode, ScrapeAllJobs}

\* job_sources.py, get_job_source, lines 677-681.
SupportedSources == {"linkedin", "indeed", "bayt"}

\* The platforms of a run: the fixed list of get_jobs, the job_sources of the
\* configuration for scrape_mode, the enabled ones of the two of
\* scrape_all_jobs.
PlatformLists(impl) ==
    CASE impl = ServiceGetJobs -> {<<"linkedin", "indeed", "glassdoor">>}
      [] impl = MainScrapeMode -> SeqsUpTo({"linkedin", "indeed", "monster"}, MaxSources)
      [] OTHER -> {<<"linkedin", "indeed">>, <<"linkedin">>, <<"indeed">>, <<>>}

PlatformUrls(p) == {"https://" \o p \o "/1", "https://" \o p \o "/2"}

\* The record of a posting as the platform's scraper of the run builds it:
\* with the key url in scraper_service.py (line 623) and job_sources.py (line
\* 364), with the key job_url in job_scraper.py (lines 283, 384).
PlatformRecord(impl, u) ==
    IF impl = ScrapeAllJobs
    THEN MkJob(<<"t">>, <<"c">>, <<>>, <<>>, u, NoKey, NoKey, NoKey)
    ELSE MkJobRecord(<<"t">>, <<"c">>, <<>>, u)

\* The lists a platform's scrape may return; those of job_scraper.py went
\* through its deduplicate_jobs.
PlatformJobs(impl, p) ==
    LET all == SeqsUpTo({PlatformRecord(impl, u) : u \in PlatformUrls(p)}, MaxPlatformJobs)
    IN  IF impl = ScrapeAllJobs
        THEN {js \in all : JobScraper_deduplicate_jobs(js) = js}
        ELSE all

\* How the work on one platform may go: the login or the source's
\* construction raises, the scrape raises, or it returns records.
PlatformOutcomes(impl, p) ==
    {[kind |-> "login_raise", jobs |-> <<>>], [kind |-> "scrape_raise", jobs |-> <<>>]}
    \cup {[kind |-> "ok", jobs |-> js] : js \in PlatformJobs(impl, p)}

\* job['job_url'] over a list: the urls, or a KeyError.
RECURSIVE SubscriptJobUrl(_)
SubscriptJobUrl(jobs) ==
    IF jobs = <<>> THEN [raised |-> FALSE, urls |-> <<>>]
    ELSE IF Head(jobs).job_url = NoKey THEN [raised |-> TRUE, urls |-> <<>>]
    ELSE LET rest == SubscriptJobUrl(Tail(jobs))
         IN  [raised |-> rest.raised,
              urls |-> IF rest.raised THEN <<>> ELSE <<Head(jobs).job_url>> \o rest.urls]

RECURSIVE KeepNew(_, _)
KeepNew(jobs, urls) ==
    IF jobs = <<>> THEN <<>>
    ELSE (IF Head(jobs).job_url \notin urls THEN <<Head(jobs)>> ELSE <<>>)
         \o KeepNew(Tail(jobs), urls)

\* What one pass of the platform loop adds to all_jobs.
\*   scraper_service.py, lines 516-531: the records, nothing on an exception.
\*   main.py, lines 226-243: the records whose job['job_url'] is not among
\*     the existing urls; nothing on an exception, that of the subscript
\*     included.
\*   job_scraper.py, lines 411-434: the records, nothing on an exception.
PlatformAdds(impl, o, urls) ==
    IF o.kind # "ok" THEN <<>>
    ELSE IF impl = MainScrapeMode
         THEN IF SubscriptJobUrl(o.jobs).raised THEN <<>> ELSE KeepNew(o.jobs, urls)
    ELSE o.jobs

InitPlatforms ==
    /\ cfg = [review_before_apply |-> NoKey, auto_apply_enabled |-> NoKey]
    /\ store = [kind |-> Real, jobs_sheet |-> FALSE, rows |-> <<>>, review |-> <<>>]
    /\ InitDispIdle
    /\ InitRunIdle
    /\ InitDedupIdle
    /\ InitScrapeIdle
    /\ InitExtractIdle
    /\ InitCookieIdle
    /\ InitLoginIdle
    /\ InitCrawlIdle
    /\ InitThirdIdle
    /\ runImpl \in RunImpls
    /\ platforms \in PlatformLists(runImpl)
    /\ existing \in IF runImpl = MainScrapeMode THEN {{}, {"https://linkedin/1"}} ELSE {{}}
    /\ platIdx = 0
    /\ platLog = <<>>
    /\ runAll = <<>>
    /\ ppc = "loop"
    /\ runOut = <<>>

otherThanPlat ==
    <<dispVars, runVars, dedupVars, scrapeVars, extractVars, cookieVars, loginVars, crawlVars,
      thirdVars>>

\* One pass of the loop over the platforms.
PlatformStep ==
    /\ ppc = "loop"
    /\ platIdx < Len(platforms)
    /\ LET p == platforms[platIdx + 1]
       IN  \E o \in PlatformOutcomes(runImpl, p) :
              /\ (runImpl = MainScrapeMode /\ p \notin SupportedSources)
                    => o.kind = "login_raise"
              /\ platLog' = Append(platLog, [platform |-> p, kind |-> o.kind, jobs |-> o.jobs])
              /\ runAll' = runAll \o PlatformAdds(runImpl, o, existing)
    /\ platIdx' = platIdx + 1
    /\ UNCHANGED <<runImpl, platforms, existing, ppc, runOut, otherThanPlat>>

\* After the loop: scrape_all_jobs de-duplicates (job_scraper.py line 436),
\* the others go on with all_jobs as it is.
RunEnd ==
    /\ ppc = "loop"
    /\ platIdx = Len(platforms)
    /\ runOut' = IF runImpl = ScrapeAllJobs THEN JobScraper_deduplicate_jobs(runAll)
                 ELSE runAll
    /\ ppc' = "done"
    /\ UNCHANGED <<runImpl, platforms, existing, platIdx, platLog, runAll, otherThanPlat>>

NextPlatforms == PlatformStep \/ RunEnd

SpecPlatforms == InitPlatforms /\ [][NextPlatforms]_vars

(***************************************************************************)
(* E-mail bodies.  A body is the sequence of its lines and a line the      *)
(* sequence of its words; a URL is one word alone on its line.  The        *)
(* parsers' regular expressions are read line by line: [^\n]+? followed by *)
(* \s*\n is a whole line, \s*\n\s* passes over blank lines, and the lazy   *)
(* .*? before a URL reaches the first such URL further down.               *)
(***************************************************************************)
MailKinds == {"linkedin", "indeed", "glassdoor", "generic"}

\* A URL of each kind that the parser's view pattern matches.
ViewUrl(kind) ==
    CASE kind = "linkedin" -> "https://www.linkedin.com/jobs/view/12345"
      [] kind = "indeed" -> "https://ca.indeed.com/viewjob?jk=abc123"
      [] kind = "glassdoor" -> "https://www.glassdoor.com/job-listing/12345"
      [] OTHER -> "https://generic.com/job/123"

\* A URL of each kind that the parser's apply pattern matches.
ApplyUrl(kind) ==
    CASE kind = "linkedin" -> "https://www.linkedin.com/jobs/apply/12345"
      [] kind = "indeed" -> "https://ca.indeed.com/applystart/abc123"
      [] kind = "glassdoor" ->
            "https://www.glassdoor.com/partner/jobListing/applyJobListing.htm?jobListingId=12345"
      [] OTHER -> "https://generic.com/apply/123"

MailUrls == {ViewUrl(k) : k \in MailKinds} \cup {ApplyUrl(k) : k \in MailKinds}

\* 'http' in line
HasHttp(line) == \E i \in 1..Len(line) : line[i] \in MailUrls

\* re.search(r'https?://[^\s]+', line).group(0)
FirstUrl(line) ==
    line[CHOOSE i \in 1..Len(line) : line[i] \in MailUrls /\ \A k \in 1..(i - 1) : line[k] \notin MailUrls]

\* any(keyword in line.lower() for keyword in ['engineer', 'manager',
\* 'analyst', 'developer', 'specialist'])
HasJobKeyword(line) == \E i \in 1..Len(line) : line[i] \in {"Engineer", "Manager", "Developer"}

\* any(loc_word in line.lower() for loc_word in ['dubai', 'canada',
\* 'remote', 'uae'])
HasLocationWord(line) == \E i \in 1..Len(line) : line[i] \in {"Dubai,", "UAE", "Remote"}

\* Where title\s+at\s+company splits a line: the first word "at" with words
\* on both sides, 0 without one.
AtSplit(line) ==
    LET at == {i \in 2..(Len(line) - 1) : line[i] = "at"}
    IN  IF at = {} THEN 0 ELSE CHOOSE i \in at : \A k \in at : i <= k

\* The first line from k on that is not blank, 0 without one.
NextNonBlank(b, k) ==
    LET ls == {i \in k..Len(b) : b[i] # <<>>}
    IN  IF ls = {} THEN 0 ELSE CHOOSE i \in ls : \A j \in ls : i <= j

\* The first line from k on that carries the URL, 0 without one.
FirstWith(b, k, url) ==
    LET ls == {i \in k..Len(b) : \E w \in 1..Len(b[i]) : b[i][w] = url}
    IN  IF ls = {} THEN 0 ELSE CHOOSE i \in ls : \A j \in ls : i <= j

\* re.search of the apply pattern over the whole body: the first apply link,
\* "" without one.
ApplyLink(b, kind) == IF FirstWith(b, 1, ApplyUrl(kind)) = 0 THEN "" ELSE ApplyUrl(kind)

\* The job dict of a parser; job['apply_url'] = apply_url or job_url.
MailJob(title, company, location, job_url, apply_url) ==
    MkJob(title, company, location, <<>>, job_url,
          IF apply_url = "" THEN job_url ELSE apply_url, NoKey, NoKey)

RECURSIVE LinkedInMatches(_, _)
\* finditer of the LinkedIn pattern from line c on: a line "title at
\* company", the next non-blank line as location, with a line break after it,
\* and the first view URL further down; the search goes on after the URL.
LinkedInMatches(b, c) ==
    LET ok(L) ==
            /\ AtSplit(b[L]) # 0
            /\ NextNonBlank(b, L + 1) \notin {0, Len(b)}
            /\ FirstWith(b, NextNonBlank(b, L + 1) + 1, ViewUrl("linkedin")) # 0
        starts == {L \in c..Len(b) : ok(L)}
    IN  IF starts = {} THEN <<>>
        ELSE LET L == CHOOSE L \in starts : \A k \in starts : L <= k
                 i == AtSplit(b[L])
                 L2 == NextNonBlank(b, L + 1)
                 U == FirstWith(b, L2 + 1, ViewUrl("linkedin"))
             IN  <<MailJob(SubSeq(b[L], 1, i - 1), SubSeq(b[L], i + 1, Len(b[L])), b[L2],
                           ViewUrl("linkedin"), ApplyLink(b, "linkedin"))>>
                 \o LinkedInMatches(b, U + 1)

parse_linkedin_job_alert(b) == LinkedInMatches(b, 1)

RECURSIVE ThreeLineMatches(_, _, _)
\* finditer of the Indeed and Glassdoor patterns from line c on: three
\* non-blank lines as title, company and location, a line break after the
\* third, and the first view URL further down.
ThreeLineMatches(b, c, kind) ==
    LET L == NextNonBlank(b, c)
        L1 == IF L = 0 THEN 0 ELSE NextNonBlank(b, L + 1)
        L2 == IF L1 = 0 THEN 0 ELSE NextNonBlank(b, L1 + 1)
        U == IF L2 \in {0, Len(b)} THEN 0 ELSE FirstWith(b, L2 + 1, ViewUrl(kind))
    IN  IF U = 0 THEN <<>>
        ELSE <<MailJob(b[L], b[L1], b[L2], ViewUrl(kind), ApplyLink(b, kind))>>
             \o ThreeLineMatches(b, U + 1, kind)

parse_indeed_job_alert(b) == ThreeLineMatches(b, 1, "indeed")

parse_glassdoor_job_alert(b) == ThreeLineMatches(b, 1, "glassdoor")

RECURSIVE GenericWindow(_, _, _, _)
\* The loop over the four lines after a title line, from line j to line
\* last: acc holds company, location, job_url, apply_url and whether company
\* and location were set.
GenericWindow(b, j, last, acc) ==
    IF j > last THEN acc
    ELSE LET n == b[j]
             nxt == IF ~acc.hasCompany /\ n # <<>> /\ ~HasHttp(n)
                        THEN [acc EXCEPT !.company = n, !.hasCompany = TRUE]
                    ELSE IF ~acc.hasLocation /\ HasLocationWord(n)
                        THEN [acc EXCEPT !.location = n, !.hasLocation = TRUE]
                    ELSE IF HasHttp(n)
                        THEN IF acc.job_url = "" THEN [acc EXCEPT !.job_url = FirstUrl(n)]
                             ELSE [acc EXCEPT !.apply_url = FirstUrl(n)]
                    ELSE acc
         IN  GenericWindow(b, j + 1, last, nxt)

RECURSIVE GenericFrom(_, _)
GenericFrom(b, i) ==
    IF i > Len(b) THEN <<>>
    ELSE (IF HasJobKeyword(b[i])
          THEN LET last == IF i + 4 <= Len(b) THEN i + 4 ELSE Len(b)
                   w == GenericWindow(b, i + 1, last,
                            [company |-> <<>>, location |-> <<>>, job_url |-> "",
                             apply_url |-> "", hasCompany |-> FALSE, hasLocation |-> FALSE])
               IN  IF w.hasCompany
                   THEN <<MailJob(b[i], w.company, w.location, w.job_url, w.apply_url)>>
                   ELSE <<>>
          ELSE <<>>)
         \o GenericFrom(b, i + 1)

parse_generic_job_alert(b) == GenericFrom(b, 1)

\* EmailScanner.parse_job_email: the four parsers in order, then the
\* de-duplication by hash_job.
parse_job_email(b) ==
    parse_job_email_dedup(parse_linkedin_job_alert(b) \o parse_indeed_job_alert(b)
                          \o parse_glassdoor_job_alert(b) \o parse_generic_job_alert(b))

(***************************************************************************)
(* Specification SpecEmail: one parser, or parse_job_email, over a body of *)
(* some kind of job alert.                                                 *)
(***************************************************************************)
TitleAtLine == <<"Senior", "AI", "Engineer", "at", "TechCorp">>
TitleLine == <<"AI", "Engineer">>
CompanyLine == <<"TechCorp">>
LocationLine == <<"Dubai,", "UAE">>
SalaryLine == <<"AED", "15,000", "-", "20,000", "per", "month">>

\* The lines of an alert of a kind.
MailLines(kind) ==
    {TitleAtLine, TitleLine, CompanyLine, LocationLine, <<ViewUrl(kind)>>, <<ApplyUrl(kind)>>, <<>>}

\* The body of the specification's example.
ExampleBody == <<TitleAtLine, LocationLine, SalaryLine, <<ViewUrl("linkedin")>>>>

\* The example and the bodies of up to n lines of one kind of mail.
BodiesUpTo(n) == {ExampleBody} \cup UNION {SeqsUpTo(MailLines(k), n) : k \in MailKinds}

InitEmail ==
    /\ InitFirstIdle
    /\ InitApplyIdle
    /\ InitRetryIdle
    /\ InitBrowserIdle
    /\ InitFetchIdle
    /\ body \in BodiesUpTo(MaxLines)
    /\ parsedBy = None
    /\ parsed = <<>>

otherThanEmail == <<firstVars, applyVars, retryVars, browserVars, fetchVars>>

ParseLinkedIn ==
    /\ parsedBy = None
    /\ parsedBy' = "_parse_linkedin_job_alert"
    /\ parsed' = parse_linkedin_job_alert(body)
    /\ UNCHANGED <<body, otherThanEmail>>

ParseIndeed ==
    /\ parsedBy = None
    /\ parsedBy' = "_parse_indeed_job_alert"
    /\ parsed' = parse_indeed_job_alert(body)
    /\ UNCHANGED <<body, otherThanEmail>>

ParseGlassdoor ==
    /\ parsedBy = None
    /\ parsedBy' = "_parse_glassdoor_job_alert"
    /\ parsed' = parse_glassdoor_job_alert(body)
    /\ UNCHANGED <<body, otherThanEmail>>

ParseGeneric ==
    /\ parsedBy = None
    /\ parsedBy' = "_parse_generic_job_alert"
    /\ parsed' = parse_generic_job_alert(body)
    /\ UNCHANGED <<body, otherThanEmail>>

ParseJobEmail ==
    /\ parsedBy = None
    /\ parsedBy' = "parse_job_email"
    /\ parsed' = parse_job_email(body)
    /\ UNCHANGED <<body, otherThanEmail>>

NextEmail == ParseLinkedIn \/ ParseIndeed \/ ParseGlassdoor \/ ParseGeneric \/ ParseJobEmail

SpecEmail == InitEmail /\ [][NextEmail]_vars

(***************************************************************************)
(* JobApplication.apply_to_job and its two handlers.  A page is what the   *)
(* browser and the application page do during one call: whether the launch *)
(* and the navigation go through, whether the content carries an anti-bot  *)
(* marker, whether the apply control, the submit control and the success   *)
(* indicator are found, whether the click on the apply control and the     *)
(* filling of the form go through.  A step is a page operation or a store  *)
(* call, with the flag raised when it ended with an exception.             *)
(***************************************************************************)
CaptchaNote == "Manual review required: CAPTCHA/anti-bot detected"
NoEasyApplyNote == "Manual review required: Easy Apply button not found"
FormErrorNote == "Manual review required: Form structure unsupported or error: <e>"
NoSubmitNote == "Manual review required: Submit button not found"
NoSuccessNote == "Manual review required: No success message after submit"
HandlerRaiseNote == "Manual review required: Exception: <e>"

PageOp(op, raised) == Call(op, "", "", raised)

\* A text-valued key that the dict does not have.
NoText == <<NoKey>>

\* A job dict with the key source: the words of its value, or NoText.
AppJob(source, title, job_url, apply_url, url) ==
    [source |-> source] @@ MkJob(title, <<"c">>, <<>>, <<>>, job_url, apply_url, NoKey, url)

LowerWord(w) ==
    IF w = "LinkedIn" THEN "linkedin" ELSE IF w = "Indeed" THEN "indeed"
    ELSE IF w = "Glassdoor" THEN "glassdoor" ELSE IF w = "Email" THEN "email" ELSE w

\* name in job.get('source', '').lower()
SourceMentions(name, j) ==
    LET source == IF j.source = NoText THEN <<>> ELSE j.source
    IN  \E i \in 1..Len(source) : LowerWord(source[i]) = name

Handled(ret, st, steps) == [ret |-> ret, st |-> st, steps |-> steps]

\* self.sheets_logger.update_notes(job.get('job_url', job.get('apply_url', '')), note)
\* followed by return False; update_notes of SheetsLogger raises nothing.
NotedFalse(j, st, p, steps, note) ==
    LET w == update_notes(st, StoreKey(j), note, p.apiOk)
    IN  Handled("False", w.st, steps \o <<Call("update_notes", StoreKey(j), note, w.raised)>>)

\* _handle_linkedin_application
handle_linkedin_application(j, st, p) ==
    LET s1 == <<PageOp("content", FALSE)>>
        s2 == s1 \o <<PageOp("query_apply", FALSE)>>
        s3 == s2 \o <<PageOp("click_apply", ~p.click)>>
        s4 == s3 \o <<PageOp("fill", ~p.fill)>>
        s5 == s4 \o <<PageOp("questions", FALSE), PageOp("query_submit", FALSE)>>
        s6 == s5 \o <<PageOp("click_submit", FALSE), PageOp("query_success", FALSE)>>
    IN  IF p.marker THEN NotedFalse(j, st, p, s1, CaptchaNote)
        ELSE IF ~p.applyButton THEN NotedFalse(j, st, p, s2, NoEasyApplyNote)
        ELSE IF ~p.click THEN NotedFalse(j, st, p, s3, HandlerRaiseNote)
        ELSE IF ~p.fill THEN NotedFalse(j, st, p, s4, FormErrorNote)
        ELSE IF ~p.submitButton THEN NotedFalse(j, st, p, s5, NoSubmitNote)
        ELSE IF ~p.success THEN NotedFalse(j, st, p, s6, NoSuccessNote)
        ELSE Handled("True", st, s6)

\* _handle_indeed_application
handle_indeed_application(j, st, p) ==
    LET s1 == <<PageOp("query_apply", FALSE)>>
        s2 == s1 \o <<PageOp("click_apply", ~p.click)>>
        s3 == s2 \o <<PageOp("fill", ~p.fill)>>
        s4 == s3 \o <<PageOp("questions", FALSE), PageOp("query_submit", FALSE)>>
        s5 == s4 \o <<PageOp("click_submit", FALSE), PageOp("query_success", FALSE)>>
    IN  IF ~p.applyButton THEN Handled("False", st, s1)
        ELSE IF ~p.click THEN Handled("False", st, s2)
        ELSE IF ~p.fill THEN Handled("False", st, s3)
        ELSE IF ~p.submitButton THEN Handled("False", st, s4)
        ELSE Handled(IF p.success THEN "True" ELSE "False", st, s5)

\* job.get('apply_url') or job.get('url')
ApplyTarget(j) == IF Truthy(j.apply_url) THEN j.apply_url ELSE Get(j.url, None)

\* Lines 109-138: the body of the try of apply_to_job.  job['url'],
\* job['title'] and job['company'] are subscripts: a missing key raises.
ApplyBody(j, st, p) ==
    LET nav == <<Call("goto", ApplyTarget(j), "", ~p.nav)>>
        h == IF SourceMentions("linkedin", j) THEN handle_linkedin_application(j, st, p)
             ELSE handle_indeed_application(j, st, p)
        steps == nav \o h.steps
        m == mark_applied(h.st, j.url, p.apiOk)
        marked == steps \o <<Call("mark_applied", j.url, "Yes", m.raised)>>
    IN  IF ~Truthy(ApplyTarget(j)) THEN Handled("False", st, <<>>)
        ELSE IF ~p.nav THEN Handled("raise", st, nav)
        ELSE IF ~SourceMentions("linkedin", j) /\ ~SourceMentions("indeed", j)
             THEN Handled("False", st, nav)
        ELSE IF h.ret = "True"
             THEN IF j.url = NoKey THEN Handled("raise", h.st, steps)
                  ELSE IF j.title = NoText \/ j.company = NoText THEN Handled("raise", m.st, marked)
                  ELSE Handled("True", m.st, marked)
        ELSE IF j.title = NoText \/ j.company = NoText THEN Handled("raise", h.st, steps)
        ELSE Handled("False", h.st, steps)

\* apply_to_job without the handler of lines 140-143.
ApplyNoOuterTry(j, st, p) == ApplyBody(j, st, p)

\* Lines 92-143.  The handler of lines 140-143 logs, notifies and returns
\* False; notify_slack swallows its own errors, so the retry decorator
\* never sees an exception and the body runs once.
apply_to_job(j, st, p) ==
    LET b == ApplyBody(j, st, p)
    IN  IF b.ret = "raise" THEN [b EXCEPT !.ret = "False"] ELSE b

\* application_dispatcher.py 45-55 with the engine it calls: the context
\* launches the browser, apply_to_job runs on the sheet, and the branch
\* goes on with the sheet as the engine left it.
EngineRuns(c, j) ==
    ~ReviewBeforeApply(c) /\ ~HasRecruiterEmail(j) /\ HasApplyUrl(j) /\ AutoApplyEnabled(c)

EngineCall(j, st, p) ==
    IF ~p.launch THEN Handled("raise", st, <<PageOp("launch", TRUE)>>)
    ELSE LET a == apply_to_job(j, st, p)
         IN  [a EXCEPT !.steps = <<PageOp("launch", FALSE)>> \o @ \o <<PageOp("close", FALSE)>>]

\* a is what the engine does when the branch calls it.
DispatchApply(c, j, st, p, a) ==
    LET env == [emailValid |-> TRUE, credsOk |-> TRUE, smtpOk |-> TRUE, apiOk |-> p.apiOk,
                engine |-> a.ret]
        d == dispatch(c, j, IF EngineRuns(c, j) THEN a.st ELSE st, env)
    IN  Handled(d.result, d.st, (IF EngineRuns(c, j) THEN a.steps ELSE <<>>) \o d.calls)

Sources == {NoText, <<"LinkedIn">>, <<"Indeed">>, <<"Glassdoor", "Email">>}

AppJobs ==
    {AppJob(s, t, ju, au, u) :
        s \in Sources, t \in {NoText, <<"a">>}, ju \in {NoKey, "u1"},
        au \in {NoKey, "u1"}, u \in {NoKey, "u1"}}

AppPages ==
    [launch : BOOLEAN, nav : BOOLEAN, marker : BOOLEAN, applyButton : BOOLEAN, click : BOOLEAN,
     fill : BOOLEAN, submitButton : BOOLEAN, success : BOOLEAN, apiOk : BOOLEAN]

\* A step that is not reached is left at one answer; the marker is a fact
\* about the page that was loaded, whoever looks for it.
AppPagesFor(st) ==
    {p \in AppPages :
        /\ ~p.launch => p.nav
        /\ ~(p.launch /\ p.nav) => (p.applyButton /\ ~p.marker)
        /\ ~(p.launch /\ p.nav /\ p.applyButton) => p.click
        /\ ~(p.launch /\ p.nav /\ p.applyButton /\ p.click) => p.fill
        /\ ~(p.launch /\ p.nav /\ p.applyButton /\ p.click /\ p.fill) => p.submitButton
        /\ ~(p.launch /\ p.nav /\ p.applyButton /\ p.click /\ p.fill /\ p.submitButton)
              => p.success
        /\ ~st.jobs_sheet => p.apiOk}

AppStores == [kind : {Real}, jobs_sheet : BOOLEAN, rows : {<<>>, <<OldRow("u1")>>}, review : {<<>>}]

AppConfigs == [review_before_apply : {NoKey}, auto_apply_enabled : {NoKey, "False"}]

otherThanApply == <<firstVars, emailVars, retryVars, browserVars, fetchVars>>

InitApply ==
    /\ InitFirstIdle
    /\ InitEmailIdle
    /\ InitRetryIdle
    /\ InitBrowserIdle
    /\ InitFetchIdle
    /\ appJob \in AppJobs
    /\ appCfg \in AppConfigs
    /\ appStore \in {st \in AppStores : ~st.jobs_sheet => st.rows = <<>>}
    /\ appPage \in AppPagesFor(appStore)
    /\ appBy = None
    /\ appRet = None
    /\ appSteps = <<>>

\* apply_to_job called on an entered context, as the tests of the engine do.
ApplyToJob ==
    /\ appBy = None
    /\ appPage.launch
    /\ \E a \in {apply_to_job(appJob, appStore, appPage)} :
          /\ appRet' = a.ret
          /\ appStore' = a.st
          /\ appSteps' = a.steps
    /\ appBy' = "apply_to_job"
    /\ UNCHANGED <<appJob, appPage, appCfg, otherThanApply>>

\* dispatch called on the job, as run_auto_apply does.
DispatchJob ==
    /\ appBy = None
    /\ \E a \in {EngineCall(appJob, appStore, appPage)} :
          \E d \in {DispatchApply(appCfg, appJob, appStore, appPage, a)} :
             /\ appRet' = d.ret
             /\ appStore' = d.st
             /\ appSteps' = d.steps
    /\ appBy' = "dispatch"
    /\ UNCHANGED <<appJob, appPage, appCfg, otherThanApply>>

NextApply == ApplyToJob \/ DispatchJob

SpecApply == InitApply /\ [][NextApply]_vars

(***************************************************************************)
(* EmailScanner._retry_api_call.  api_call is the environment: each        *)
(* invocation returns or raises one of ApiErrors.                          *)
(***************************************************************************)
api_max_retries == 3
api_base_delay == 2

ApiErrors == {"HttpError", "TimeoutError"}

\* A delay that grows by base_delay with every failure.
LinearDelay(base_delay, k) == base_delay * (k + 1)

\* Line 240: delay = base_delay * (2 ** attempt)
RetryDelay(base_delay, k) == base_delay * Pow2(k)

\* Line 233: for attempt in range(max_retries + 1)
AttemptRange(retries) == 0..retries

otherThanRetry == <<firstVars, emailVars, applyVars, browserVars, fetchVars>>

InitRetry ==
    /\ InitFirstIdle
    /\ InitEmailIdle
    /\ InitApplyIdle
    /\ InitBrowserIdle
    /\ InitFetchIdle
    /\ rMax \in 0..MaxApiRetries
    /\ rBase \in 1..MaxBaseDelay
    /\ rPc = "call"
    /\ rAttempt = 0
    /\ rCalls = 0
    /\ rErrors = <<>>
    /\ rWaits = <<>>
    /\ rOut = None

\* Line 235: return api_call()
ApiCallReturns ==
    /\ rPc = "call"
    /\ rAttempt \in AttemptRange(rMax)
    /\ rCalls' = rCalls + 1
    /\ rPc' = "returned"
    /\ rOut' = "result"
    /\ UNCHANGED <<rMax, rBase, rAttempt, rErrors, rWaits, otherThanRetry>>

\* Lines 236-238: api_call raised; on the last attempt the exception is
\* raised again, before that the loop goes on to its sleep.
ApiCallRaises ==
    /\ rPc = "call"
    /\ rAttempt \in AttemptRange(rMax)
    /\ \E e \in ApiErrors :
          /\ rCalls' = rCalls + 1
          /\ rErrors' = Append(rErrors, e)
          /\ IF rAttempt = rMax
             THEN rPc' = "raised" /\ rOut' = e
             ELSE rPc' = "sleep" /\ rOut' = rOut
    /\ UNCHANGED <<rMax, rBase, rAttempt, rWaits, otherThanRetry>>

\* Lines 240-243: the sleep, then the next attempt.
RetrySleep ==
    /\ rPc = "sleep"
    /\ rWaits' = Append(rWaits, RetryDelay(rBase, rAttempt))
    /\ rAttempt' = rAttempt + 1
    /\ rPc' = "call"
    /\ UNCHANGED <<rMax, rBase, rCalls, rErrors, rOut, otherThanRetry>>

NextRetry == ApiCallReturns \/ ApiCallRaises \/ RetrySleep

SpecRetry == InitRetry /\ [][NextRetry]_vars

(***************************************************************************)
(* Browsers: who launches them and who closes them.  init_browser of the   *)
(* three classes starts Playwright, launches the browser and then opens    *)
(* context and page; it may fail before the launch or after it.            *)
(***************************************************************************)
GetJobsOp == "JobScraper.get_jobs"
ContextOp == "ApplicationDispatcher.dispatch"
ScrapeModeOp == "JobAgent.scrape_mode"
BrowserOps == {GetJobsOp, ContextOp, ScrapeModeOp}

InitBrowserOutcomes == {"launch_raise", "page_raise", "ok"}

\* What init_browser adds to the log.
init_browser(o) ==
    IF o = "launch_raise" THEN <<"raise">>
    ELSE IF o = "page_raise" THEN <<"launch", "raise">>
    ELSE <<"launch">>

Count(log, ev) == Cardinality({i \in 1..Len(log) : log[i] = ev})

\* if self.browser: await self.browser.close()
close_browser(log) == IF Count(log, "launch") > Count(log, "close") THEN <<"close">> ELSE <<>>

otherThanBrowser == <<firstVars, emailVars, applyVars, retryVars, fetchVars>>

InitBrowser ==
    /\ InitFirstIdle
    /\ InitEmailIdle
    /\ InitApplyIdle
    /\ InitRetryIdle
    /\ InitFetchIdle
    /\ bOp \in BrowserOps
    /\ bN \in IF bOp = ScrapeModeOp THEN 0..MaxBrowserSources ELSE {1}
    /\ bIdx = 0
    /\ bPc = "start"
    /\ bLog = <<>>
    /\ bEnd = None

\* scraper_service.py 508-509: init_browser inside the try of get_jobs.
GetJobsInit ==
    /\ bOp = GetJobsOp /\ bPc = "start"
    /\ \E o \in InitBrowserOutcomes :
          /\ bLog' = bLog \o init_browser(o)
          /\ IF o = "ok" THEN bPc' = "body" /\ bEnd' = bEnd
             ELSE bPc' = "finally" /\ bEnd' = "raise"
    /\ UNCHANGED <<bOp, bN, bIdx, otherThanBrowser>>

\* scraper_service.py 511-532: the loop over the platforms, each in a try
\* of its own, and the return.
GetJobsBody ==
    /\ bOp = GetJobsOp /\ bPc = "body"
    /\ \E failed \in SUBSET {"linkedin", "indeed", "glassdoor"} :
          bLog' = bLog \o [i \in 1..Cardinality(failed) |-> "caught"]
    /\ bPc' = "finally"
    /\ bEnd' = "return"
    /\ UNCHANGED <<bOp, bN, bIdx, otherThanBrowser>>

\* scraper_service.py 534-535 and 486-494: finally: await self.close()
GetJobsFinally ==
    /\ bOp = GetJobsOp /\ bPc = "finally"
    /\ bLog' = bLog \o close_browser(bLog)
    /\ bPc' = "done"
    /\ UNCHANGED <<bOp, bN, bIdx, bEnd, otherThanBrowser>>

\* job_application.py 52-55 under the async with of dispatch: an exception
\* of __aenter__ leaves the statement without __aexit__ being run.
ContextEnter ==
    /\ bOp = ContextOp /\ bPc = "start"
    /\ \E o \in InitBrowserOutcomes :
          /\ bLog' = bLog \o init_browser(o)
          /\ IF o = "ok" THEN bPc' = "body" /\ bEnd' = bEnd
             ELSE bPc' = "done" /\ bEnd' = "raise"
    /\ UNCHANGED <<bOp, bN, bIdx, otherThanBrowser>>

\* application_dispatcher.py 47: the body of the async with.
ContextBody ==
    /\ bOp = ContextOp /\ bPc = "body"
    /\ \E r \in {"True", "False", "raise"} :
          /\ bLog' = bLog \o (IF r = "raise" THEN <<"raise">> ELSE <<>>)
          /\ bEnd' = IF r = "raise" THEN "raise" ELSE "return"
    /\ bPc' = "exit"
    /\ UNCHANGED <<bOp, bN, bIdx, otherThanBrowser>>

\* job_application.py 57-60: __aexit__.
ContextExit ==
    /\ bOp = ContextOp /\ bPc = "exit"
    /\ bLog' = bLog \o close_browser(bLog)
    /\ bPc' = "done"
    /\ UNCHANGED <<bOp, bN, bIdx, bEnd, otherThanBrowser>>

\* main.py 226-245: one source of the loop of scrape_mode.  scrape_jobs
\* starts with init_browser on the new source (job_sources.py 236, 391,
\* 538), which launches since the source has no browser yet, and returns or
\* raises; neither it nor scrape_mode calls close.
SourceScrape ==
    /\ bOp = ScrapeModeOp /\ bPc = "start"
    /\ bIdx < bN
    /\ \E o \in InitBrowserOutcomes, scraped_ok \in BOOLEAN :
          /\ o # "ok" => scraped_ok
          /\ bLog' = bLog \o init_browser(o) \o (IF scraped_ok THEN <<>> ELSE <<"raise">>)
    /\ bIdx' = bIdx + 1
    /\ UNCHANGED <<bOp, bN, bPc, bEnd, otherThanBrowser>>

\* main.py 247 on: after the last source.
ScrapeModeEnd ==
    /\ bOp = ScrapeModeOp /\ bPc = "start"
    /\ bIdx = bN
    /\ bPc' = "done"
    /\ bEnd' = "return"
    /\ UNCHANGED <<bOp, bN, bIdx, bLog, otherThanBrowser>>

NextBrowser ==
    \/ GetJobsInit \/ GetJobsBody \/ GetJobsFinally
    \/ ContextEnter \/ ContextBody \/ ContextExit
    \/ SourceScrape \/ ScrapeModeEnd

SpecBrowser == InitBrowser /\ [][NextBrowser]_vars

(***************************************************************************)
(* EmailScanner.fetch_labeled_emails.  Message ids are 1, 2, ...: Gmail    *)
(* gives every message an id of its own.  The Gmail API is the             *)
(* environment: how many calls in a row fail, whether the payload can be   *)
(* read, whether the modify call goes through.                             *)
(***************************************************************************)
\* An API operation on a message: whether it went through, and the number
\* of calls it took.
FetchEv(op, id, ok, n) == [op |-> op, id |-> id, ok |-> ok, calls |-> n]

\* _retry_api_call with its defaults, on a call that fails the first
\* failures times: TRUE when it returns, FALSE when it raises.
RetriedCallReturns(failures) == failures <= api_max_retries

\* The number of calls it makes.
RetriedCalls(failures) == IF RetriedCallReturns(failures) THEN failures + 1 ELSE api_max_retries + 1

\* The None of _get_email_content, among e-mails that stand as their ids.
NoEmail == 0

\* _get_email_content: the message, or None after an exception of the
\* retried call or of the reading of the payload.
get_email_content(id, failures, readable) ==
    IF RetriedCallReturns(failures) /\ readable THEN id ELSE NoEmail

\* An if that keeps whatever came back.
KeepsAll(email_data) == TRUE

\* Line 195: if email_data
Keeps(email_data) == email_data # NoEmail

otherThanFetch == <<firstVars, emailVars, applyVars, retryVars, browserVars>>

InitFetch ==
    /\ InitFirstIdle
    /\ InitEmailIdle
    /\ InitApplyIdle
    /\ InitRetryIdle
    /\ InitBrowserIdle
    /\ fMsgs = <<>>
    /\ fIdx = 0
    /\ fPc = "start"
    /\ fEmails = <<>>
    /\ fLog = <<>>
    /\ fEnd = None

\* Lines 158-189: the label, then the search for unread messages.
FetchSearch ==
    /\ fPc = "start"
    /\ \E o \in {"raise", "no_label", "found"}, n \in 0..MaxMessages :
          /\ o # "found" => n = 0
          /\ fMsgs' = [i \in 1..n |-> i]
          /\ IF o = "found" THEN fPc' = "loop" /\ fEnd' = fEnd
             ELSE fPc' = "done" /\ fEnd' = (IF o = "raise" THEN "raise" ELSE "return")
    /\ UNCHANGED <<fIdx, fEmails, fLog, otherThanFetch>>

\* Lines 192-202: one message of the loop.
FetchMessage ==
    /\ fPc = "loop"
    /\ fIdx < Len(fMsgs)
    /\ \E failures \in 0..(api_max_retries + 1), readable \in BOOLEAN, marked \in BOOLEAN :
          LET id == fMsgs[fIdx + 1]
              email_data == get_email_content(id, failures, readable)
          IN  /\ ~RetriedCallReturns(failures) => readable
              /\ email_data = NoEmail => marked
              /\ IF Keeps(email_data)
                 THEN /\ fEmails' = Append(fEmails, email_data)
                      /\ fLog' = fLog \o <<FetchEv("get", id, TRUE, RetriedCalls(failures)),
                                           FetchEv("mark", id, marked, 1)>>
                 ELSE /\ fEmails' = fEmails
                      /\ fLog' = Append(fLog, FetchEv("get", id, FALSE, RetriedCalls(failures)))
    /\ fIdx' = fIdx + 1
    /\ UNCHANGED <<fMsgs, fPc, fEnd, otherThanFetch>>

\* Line 204: return emails
FetchReturn ==
    /\ fPc = "loop"
    /\ fIdx = Len(fMsgs)
    /\ fPc' = "done"
    /\ fEnd' = "return"
    /\ UNCHANGED <<fMsgs, fIdx, fEmails, fLog, otherThanFetch>>

NextFetch == FetchSearch \/ FetchMessage \/ FetchReturn

SpecFetch == InitFetch /\ [][NextFetch]_vars

(***************************************************************************)
(* Claims about dispatch.                                                  *)
(***************************************************************************)
Outcomes == {"review_queue", "cold_email", "web_form", "manual_review", "error"}
StoreOps == {"append_review_row", "mark_cold_email_sent", "mark_applied", "update_notes"}

ReviewOn == cfg.review_before_apply = "True"
AutoOff == cfg.auto_apply_enabled = "False"
EmailPresent == job.recruiter_email \notin {NoKey, ""}
ApplyUrlPresent == job.apply_url \notin {NoKey, ""}
SendAttempted == \E i \in 1..Len(calls) : calls[i].op = "send_cold_email"
EngineInvoked == \E i \in 1..Len(calls) : calls[i].op = "apply_to_job"
StoreWriteRaised == \E i \in 1..Len(calls) : calls[i].op \in StoreOps /\ calls[i].raised
NoteWritten(note) ==
    \E i \in 1..Len(calls) :
        calls[i].op = "update_notes" /\ calls[i].val = note /\ ~calls[i].raised

\* The note is in the sheet whenever the sheet is connected, answered, and
\* has a row under the key the dispatcher used.
NoteInStore(note) ==
    LET idx == FindRow(store.rows, StoreKey(job))
    IN  (store.kind = Real /\ store.jobs_sheet /\ api /\ idx # 0)
            => store.rows[idx].notes = note

TableOutcome ==
    IF ReviewOn THEN "review_queue"
    ELSE IF EmailPresent THEN "cold_email"
    ELSE IF ApplyUrlPresent THEN (IF AutoOff THEN "manual_review" ELSE "web_form")
    ELSE "manual_review"

C2_NeverRaises ==
    nCalls > 0 =>
        /\ result \in Outcomes
        /\ result = "error" => StoreWriteRaised
        /\ \A i \in 1..Len(calls) :
              /\ (calls[i].op = "send_cold_email" /\ calls[i].raised)
                    => \/ /\ result = "cold_email"
                          /\ NoteWritten(ColdFailNote)
                          /\ NoteInStore(ColdFailNote)
                       \/ result = "error" /\ StoreWriteRaised
              /\ (calls[i].op = "apply_to_job" /\ calls[i].val # "True")
                    => \/ /\ result = "web_form"
                          /\ NoteWritten(IF calls[i].raised THEN WebRaiseNote ELSE WebFailNote)
                          /\ NoteInStore(IF calls[i].raised THEN WebRaiseNote ELSE WebFailNote)
                       \/ result = "error" /\ StoreWriteRaised

C2_Witness ==
    /\ nCalls > 0
    /\ \E i \in 1..Len(calls) : calls[i].op = "send_cold_email" /\ calls[i].raised
    /\ NoteWritten(ColdFailNote)
    /\ FindRow(store.rows, StoreKey(job)) # 0
    /\ store.rows[FindRow(store.rows, StoreKey(job))].notes = ColdFailNote
    /\ result = "cold_email"

\* C3: one handling path per dispatch call: the cold-email send is attempted
\* only with review off and a recruiter e-mail present, the web-form engine
\* only with review off, no recruiter e-mail, an apply URL and auto-apply on,
\* never both; with auto-apply off the engine is not invoked and the
\* auto-apply-off note is written instead.
C3_OnePath ==
    nCalls > 0 =>
        /\ SendAttempted => (~ReviewOn /\ EmailPresent)
        /\ EngineInvoked => (~ReviewOn /\ ~EmailPresent /\ ApplyUrlPresent /\ ~AutoOff)
        /\ ~(SendAttempted /\ EngineInvoked)
        /\ (~ReviewOn /\ ~EmailPresent /\ ApplyUrlPresent /\ AutoOff)
              => (~EngineInvoked /\ NoteWritten(AutoOffNote))

C3_Witness ==
    /\ nCalls > 0
    /\ ~ReviewOn /\ ~EmailPresent /\ ApplyUrlPresent /\ AutoOff
    /\ ~EngineInvoked
    /\ NoteWritten(AutoOffNote)
    /\ result = "manual_review"

FlagsCase ==
    /\ nCalls > 0
    /\ ApplyUrlPresent /\ ~EmailPresent
    /\ cfg.review_before_apply \in {"True", "False"}
    /\ cfg.auto_apply_enabled \in {"True", "False"}

JustDispatched ==
    /\ runPc = "loop"
    /\ runIdx > 0
    /\ Len(dispatched) = runIdx
    /\ job = runJobs[runIdx]

\* C5: a posting with no recruiter e-mail and no apply URL, processed with
\* review off, is dispatched to manual_review and afterwards the sheet holds
\* the manual-review note on the row the run appended for that posting
\* (stated for a connected sheet whose API answered).
C5_NoteOnAppendedRow ==
    (/\ JustDispatched
     /\ ~ReviewOn /\ ~EmailPresent /\ ~ApplyUrlPresent
     /\ store.jobs_sheet /\ api)
        => /\ result = "manual_review"
           /\ store.rows # <<>>
           /\ store.rows[Len(store.rows)].title = job.title
           /\ store.rows[Len(store.rows)].notes = ManualNote

\* C9: no posting whose job_url is in the store's URL set at the start of the
\* run is dispatched again in that run.
C9_NoRedispatch ==
    \A i \in 1..Len(dispatched) :
        dispatched[i].job_url \notin {NoKey, ""} => dispatched[i].job_url \notin startUrls

(***************************************************************************)
(* Claims about de-duplication.                                            *)
(***************************************************************************)
\* The identity of the design: job_url when non-empty, else the normalized
\* (title, company, location).
Norm(t) == lower(strip(t))
Identity(j) ==
    IF j.job_url \notin {NoKey, ""} THEN <<"url", j.job_url>>
    ELSE <<"digest", Norm(j.title), Norm(j.company), Norm(j.location)>>

\* C6: de-duplication is idempotent for each of the three passes:
\* dedupe(dedupe(X)) is dedupe(X), same records in the same order.
C6_DedupIdempotent == dImpl # None => dOut2 = dOut

C6_Witness ==
    /\ dImpl # None
    /\ Len(dOut) >= 2
    /\ Len(dOut) < Len(dIn)
    /\ dOut2 = dOut

SameButDescription(a, b) ==
    /\ a.description # b.description
    /\ [a EXCEPT !.description = <<>>] = [b EXCEPT !.description = <<>>]

\* C7: two records that differ only in description collapse to exactly one
\* record of the output, under each pass, with or without a job_url.
C7_CollapseToOne ==
    dImpl # None =>
        \A i, k \in 1..Len(dIn) :
            SameButDescription(dIn[i], dIn[k]) =>
                Cardinality({n \in 1..Len(dOut) :
                                dOut[n] = dIn[i] \/ dOut[n] = dIn[k]}) = 1

\* C8: two records are merged exactly when they have the same identity, and
\* the first occurrence of each identity is the record kept: the output is
\* the input without the records whose identity occurred earlier.
FirstOfIdentity(i) == \A k \in 1..(i - 1) : Identity(dIn[k]) # Identity(dIn[i])

RECURSIVE FirstsFrom(_)
FirstsFrom(i) ==
    IF i > Len(dIn) THEN <<>>
    ELSE (IF FirstOfIdentity(i) THEN <<dIn[i]>> ELSE <<>>) \o FirstsFrom(i + 1)

C8_MergeByIdentity == dImpl # None => dOut = FirstsFrom(1)

(***************************************************************************)
(* Claims about scraping.                                                  *)
(***************************************************************************)
HasRecord(list, title, company) ==
    \E n \in 1..Len(list) : list[n].title = strip(title) /\ list[n].company = strip(company)

\* What each scraper reads as the title and the company of a card.
CardTitle(card) ==
    CASE scrapedBy = "LinkedInSource" -> FirstElement(card, LinkedInTitleSels).text
      [] scrapedBy = "scraper_service" ->
            query_selector(card, Sel("", "job-card-list__title", "", "")).text
      [] OTHER -> query_selector(card, Sel("h2", "jobTitle", "", "")).text

CardCompany(card) ==
    CASE scrapedBy = "LinkedInSource" -> FirstElement(card, LinkedInCompanySels).text
      [] scrapedBy = "scraper_service" ->
            query_selector(card, Sel("", "job-card-container__company-name", "", "")).text
      [] OTHER -> query_selector(card, Sel("span", "companyName", "", "")).text

\* C10: a card whose title and company the scraper reads as non-empty gives a
\* record of the collection the scrape returns, and the record is still
\* there after the de-duplication pass, whatever else the card lacks (stated
\* for a search that is not restricted to remote jobs).
C10_PartialKept ==
    scrapedBy \in {"LinkedInSource", "scraper_service", "job_scraper indeed"} =>
        \A i \in 1..Len(cards) :
            (strip(CardTitle(cards[i])) # <<>> /\ strip(CardCompany(cards[i])) # <<>>)
                => /\ HasRecord(scraped, CardTitle(cards[i]), CardCompany(cards[i]))
                   /\ HasRecord(perSource, CardTitle(cards[i]), CardCompany(cards[i]))

\* The link of a record, under whichever key the scraper put it.
RecordUrl(r) == IF Truthy(r.job_url) THEN r.job_url ELSE Get(r.url, "")

ValidRecord(r) == RecordUrl(r) # "" \/ (r.title # <<>> /\ r.company # <<>>)

\* C11: every record of every returned collection has a non-empty link, or a
\* non-empty title together with a non-empty company.
C11_NoInvalidRecord ==
    /\ \A n \in 1..Len(scraped) : ValidRecord(scraped[n])
    /\ \A n \in 1..Len(perSource) : ValidRecord(perSource[n])

(***************************************************************************)
(* Claims about field extraction.                                          *)
(***************************************************************************)
ExtractSels ==
    IF extractedBy = "LinkedInSource" THEN LinkedInTitleSels ELSE LinkedInScraperTitleSels

RECURSIVE FirstNonEmpty(_, _)
\* The trimmed value of the first locator, in the listed order, whose result
\* is non-empty; empty when no locator has one.
FirstNonEmpty(c, sels) ==
    IF sels = <<>> THEN <<>>
    ELSE LET el == query_selector(c, Head(sels))
         IN  IF el # NoEl /\ strip(el.text) # <<>> THEN strip(el.text)
             ELSE FirstNonEmpty(c, Tail(sels))

\* C12: extraction returns the value of the first locator, in the listed
\* order, that yields a non-empty result, and an empty value if all fail.
C12_FirstNonEmptyLocator ==
    extractedBy # None => extracted = FirstNonEmpty(container, ExtractSels)

(***************************************************************************)
(* Claims about the cookie jar.                                            *)
(***************************************************************************)
UsableJar == jar.exists /\ jar.wellFormed /\ jar.cookies # {}

\* C13 as claimed: a jar whose age has reached or passed the threshold is
\* reported absent and none of its cookies is added to the context.
C13_AsClaimed ==
    (loadRet # None /\ jar.exists /\ jar.age >= max_age_days)
        => (loadRet = "False" /\ ctxCookies = {})

\* C13 amended: the jar is handed to the context only if its age does not
\* exceed the threshold; a jar older than the threshold is reported absent,
\* well-formed or not, and none of its cookies is added; a usable jar of at
\* most the threshold's age is loaded whole.
C13_StaleJarAbsent ==
    loadRet # None =>
        /\ (jar.exists /\ jar.age > max_age_days) => (loadRet = "False" /\ ctxCookies = {})
        /\ loadRet = "False" => ctxCookies = {}
        /\ (loadRet = "True") = (UsableJar /\ jar.age <= max_age_days)
        /\ loadRet = "True" => ctxCookies = jar.cookies

C13_Witness ==
    /\ loadRet = "False"
    /\ UsableJar
    /\ jar.age > max_age_days
    /\ ctxCookies = {}

(***************************************************************************)
(* Claims about login.                                                     *)
(***************************************************************************)
HasEvent(ev, n) == \E k \in 1..Len(events) : events[k] = Ev(ev, n)

RECURSIVE WaitsOf(_)
\* The lengths of the waits in a log, in order.
WaitsOf(log) ==
    IF log = <<>> THEN <<>>
    ELSE (IF Head(log).ev = "wait" THEN <<Head(log).n>> ELSE <<>>) \o WaitsOf(Tail(log))

NoCaptchaSeen == \A k \in 1..Len(events) : events[k].ev # "captcha"

\* C15: without a CAPTCHA, a LinkedIn login is attempted at most three times,
\* each wait between attempts is longer than the one before by a constant
\* factor, a login that never saw a success indicator ends by raising, and
\* success is reported only with a success indicator or verified cookies.
C15_BoundedBackoff ==
    (loginImpl \in {ServiceLinkedIn, ScraperLinkedIn} /\ NoCaptchaSeen) =>
        LET w == WaitsOf(events)
        IN  /\ attempt <= 3
            /\ \A i \in 1..(Len(w) - 1) : w[i + 1] > w[i]
            /\ \A i \in 1..(Len(w) - 2) : w[i + 1] * w[i + 1] = w[i] * w[i + 2]
            /\ loginResult = "ok" =>
                  (HasEvent("indicator", attempt) \/ HasEvent("verified", attempt))
            /\ lpc = "done" =>
                  (loginResult = "raise") =
                      ~(HasEvent("indicator", attempt) \/ HasEvent("verified", attempt))

\* C16: once a login attempt has met a CAPTCHA, the login is not attempted
\* again by itself: no credentials are submitted after it, and no later
\* attempt starts.
C16_NoRetryAfterCaptcha ==
    \A k \in 1..Len(events) :
        events[k].ev = "captcha" =>
            /\ attempt = events[k].n
            /\ \A i \in (k + 1)..Len(events) : events[i].ev # "submit"

(***************************************************************************)
(* Claims about the crawl.                                                 *)
(***************************************************************************)
\* A request whose page showed an anti-bot marker or raised.
BadPage(r) == r.kind \in {"antibot", "raise"}

Requested(pair, page) ==
    \E k \in 1..Len(requests) : requests[k].pair = pair /\ requests[k].page = page

\* C17: in the crawls of job_sources.py and in scrape_indeed_jobs, a page that
\* shows an anti-bot marker or raises adds no posting, is requested once, does
\* not make the crawl raise, and is followed by the request of the next page
\* index of its pair.
C17_BadPageSkipped ==
    crawlImpl \in {SourceLinkedIn, SourceIndeed, ScraperIndeed} =>
        \A k \in 1..Len(requests) :
            BadPage(requests[k]) =>
                LET r == requests[k]
                IN  /\ \A j \in 1..Len(allJobs) :
                          ~(allJobs[j].pair = r.pair /\ allJobs[j].page = r.page)
                    /\ \A i \in 1..Len(requests) :
                          (requests[i].pair = r.pair /\ requests[i].page = r.page) => i = k
                    /\ crawlResult # "raise"
                    /\ (cpc = "done" /\ r.page < maxPages) => Requested(r.pair, r.page + 1)

\* C18: the pages of a pair are requested in increasing index, never more
\* than max_pages of them, and none after a page of the pair that carried
\* fewer containers than a full page.
C18_StopAtShortPage ==
    /\ \A k \in 1..Len(requests) : requests[k].page <= maxPages
    /\ \A k \in 2..Len(requests) :
          IF requests[k].pair = requests[k - 1].pair
          THEN requests[k].page = requests[k - 1].page + 1
          ELSE requests[k].pair = requests[k - 1].pair + 1 /\ requests[k].page = 1
    /\ \A k \in 1..Len(requests) :
          (requests[k].kind = "ok" /\ requests[k].n < full_page) =>
              \A i \in (k + 1)..Len(requests) : requests[i].pair # requests[k].pair

\* C20: when the crawl has ended, the postings of every page that was
\* extracted before a page that failed are in what the crawl returned.
C20_EarlierPagesKept ==
    cpc = "done" =>
        \A k \in 1..Len(requests) :
            (requests[k].kind = "ok" /\ \E i \in (k + 1)..Len(requests) : BadPage(requests[i])) =>
                \A c \in 1..requests[k].n :
                    \E j \in 1..Len(crawlOut) :
                        crawlOut[j].job_url = CardUrl(requests[k].pair, requests[k].page, c)

(***************************************************************************)
(* Claims about the run over the platforms.                                *)
(***************************************************************************)
InSeq(x, sq) == \E k \in 1..Len(sq) : sq[k] = x

\* C19: when the run has ended it has gone through every platform, whatever
\* failed on the way, and every posting a platform's scrape returned (and the
\* tracking sheet does not hold yet) is in the collection of the run.
C19_FailureContained ==
    ppc = "done" =>
        /\ Len(platLog) = Len(platforms)
        /\ \A k \in 1..Len(platLog) :
              platLog[k].kind = "ok" =>
                  \A i \in 1..Len(platLog[k].jobs) :
                      LET j == platLog[k].jobs[i]
                      IN  (Get(j.url, Get(j.job_url, "")) \notin existing) => InSeq(j, runOut)

(***************************************************************************)
(* Claims about the e-mail parsers.                                        *)
(***************************************************************************)
HasUrl(b, u) == FirstWith(b, 1, u) # 0

SingleParsers ==
    {"_parse_linkedin_job_alert", "_parse_indeed_job_alert", "_parse_glassdoor_job_alert",
     "_parse_generic_job_alert"}

\* C21: every job a parser returns carries an apply_url; over a body with a
\* view URL and an apply URL it is the apply URL, over a body with a view URL
\* only it is the job's job_url.
C21_ApplyUrlResolved ==
    parsedBy \in SingleParsers =>
        \A i \in 1..Len(parsed) :
            /\ parsed[i].apply_url # NoKey
            /\ \A k \in MailKinds :
                  /\ (HasUrl(body, ViewUrl(k)) /\ HasUrl(body, ApplyUrl(k)))
                        => parsed[i].apply_url = ApplyUrl(k)
                  /\ (HasUrl(body, ViewUrl(k)) /\ ~HasUrl(body, ApplyUrl(k)))
                        => parsed[i].apply_url = parsed[i].job_url

\* C22: parse_job_email over the example body returns one job, with title
\* Senior AI Engineer, company TechCorp, location Dubai, UAE, the view URL as
\* job_url and apply_url equal to job_url.
C22_ExampleOneJob ==
    (parsedBy = "parse_job_email" /\ body = ExampleBody) =>
        /\ Len(parsed) = 1
        /\ parsed[1].title = <<"Senior", "AI", "Engineer">>
        /\ parsed[1].company = <<"TechCorp">>
        /\ parsed[1].location = <<"Dubai,", "UAE">>
        /\ parsed[1].job_url = ViewUrl("linkedin")
        /\ parsed[1].apply_url = parsed[1].job_url

(***************************************************************************)
(* Claims about apply_to_job and the web-form branch of dispatch.          *)
(***************************************************************************)
Supported(j) == SourceMentions("linkedin", j) \/ SourceMentions("indeed", j)
StepDone(op) == \E i \in 1..Len(appSteps) : appSteps[i].op = op /\ ~appSteps[i].raised
StepRaised == \E i \in 1..Len(appSteps) : appSteps[i].raised
StepNote(note) ==
    \E i \in 1..Len(appSteps) : appSteps[i].op = "update_notes" /\ appSteps[i].val = note
TimesDone(op) == Cardinality({i \in 1..Len(appSteps) : appSteps[i].op = op})
FormTouched ==
    \E i \in 1..Len(appSteps) : appSteps[i].op \in {"click_apply", "fill", "click_submit"}

\* C23: on a LinkedIn or Indeed page that carries an anti-bot marker,
\* apply_to_job writes the manual-review note for it, clicks no apply or
\* submit control, fills nothing, and navigates to the page once only.
C23_AntiBotAbort ==
    (appBy # None /\ StepDone("goto") /\ Supported(appJob) /\ appPage.marker) =>
        /\ ~FormTouched
        /\ StepNote(CaptchaNote)
        /\ TimesDone("goto") = 1

C25_TrueIffSubmitted ==
    (appBy = "apply_to_job" /\ Truthy(appJob.apply_url) /\ Supported(appJob)) =>
        /\ appRet \in {"True", "False"}
        /\ appRet = "True" <=> (StepDone("click_submit") /\ appPage.success)

\* The cause the web-form flow failed for, among those it looks for.
CauseNote ==
    IF SourceMentions("linkedin", appJob) /\ appPage.marker THEN CaptchaNote
    ELSE IF ~appPage.applyButton THEN NoEasyApplyNote
    ELSE IF StepDone("click_submit") /\ ~appPage.success THEN NoSuccessNote
    ELSE None

\* C26: after a dispatch whose web-form flow failed for such a cause, the
\* notes cell of the job's row holds the manual-review note of that cause.
C26_CauseNoteKept ==
    (/\ appBy = "dispatch" /\ StepDone("goto") /\ Supported(appJob)
     /\ CauseNote # None
     /\ appPage.apiOk /\ appStore.jobs_sheet /\ FindRow(appStore.rows, StoreKey(appJob)) # 0) =>
        appStore.rows[FindRow(appStore.rows, StoreKey(appJob))].notes = CauseNote

(***************************************************************************)
(* Claims about _retry_api_call.                                           *)
(***************************************************************************)
\* The wait before the attempt that follows the k-th failure, k from 0, is
\* base_delay * 2^k; a return follows no further call; exhaustion raises the
\* last exception.
BackoffShape ==
    /\ \A k \in 1..Len(rWaits) : rWaits[k] = rBase * Pow2(k - 1)
    /\ rPc = "returned" => (rCalls = Len(rErrors) + 1 /\ rOut = "result")
    /\ rPc = "raised" => (rErrors # <<>> /\ rOut = rErrors[Len(rErrors)] /\ rCalls = Len(rErrors))
    /\ rPc \in {"call", "sleep"} => rOut = None

\* C27 as stated: with the default max_retries the API call is invoked at
\* most 3 times in total.
C27_AsClaimed ==
    /\ BackoffShape
    /\ rMax = api_max_retries => rCalls <= 3

\* C27: _retry_api_call invokes the API call at most max_retries + 1 times,
\* 4 with the default; it returns at the first success, waits
\* base_delay * 2^k after the k-th failure, and raises the last exception
\* once the attempts are used up.
C27_BoundedBackoff ==
    /\ BackoffShape
    /\ rCalls <= rMax + 1
    /\ rMax = api_max_retries => rCalls <= 4
    /\ rPc = "raised" => rCalls = rMax + 1

C27_Witness ==
    /\ rPc = "raised"
    /\ rMax = api_max_retries
    /\ rBase = api_base_delay
    /\ rCalls = 4
    /\ rWaits = <<2, 4, 8>>

(***************************************************************************)
(* Claims about the loop of run_auto_apply.                                *)
(***************************************************************************)
\* C28: the jobs handed to dispatch are, at every moment of the loop, the
\* jobs the loop has gone through, once each and in list order, whatever
\* was raised and caught while an earlier one was dispatched; each is
\* appended to the sheet first when the sheet answers; at the end all the
\* jobs of the scan were dispatched.
C28_EachDispatchedOnce ==
    /\ runPc \in {"loop", "done"} => dispatched = SubSeq(runJobs, 1, runIdx)
    /\ runPc = "done" => dispatched = runJobs
    /\ (runPc \in {"loop", "done"} /\ runIdx > 0 /\ store.jobs_sheet /\ api)
          => (store.rows # <<>> /\ store.rows[Len(store.rows)].title = runJobs[runIdx].title)

\* The engine raised while the first job was dispatched, the note of that
\* is on the first job's row, and the second job was dispatched after it.
C28_Witness ==
    /\ runPc = "done"
    /\ Len(runJobs) = 2
    /\ dispatched = runJobs
    /\ StoreKey(runJobs[1]) = "u1"
    /\ StoreKey(runJobs[2]) # "u1"
    /\ \E i \in 1..Len(store.rows) :
          store.rows[i].url = "u1" /\ store.rows[i].notes = WebRaiseNote

(***************************************************************************)
(* Claims about browsers.                                                  *)
(***************************************************************************)
OpenBrowsers == Count(bLog, "launch") - Count(bLog, "close")

\* C29: when get_jobs, the JobApplication context of dispatch, or
\* scrape_mode has ended, by return or by exception, no browser it launched
\* is still open.
C29_BrowsersClosed == bPc = "done" => OpenBrowsers = 0

(***************************************************************************)
(* Claims about fetch_labeled_emails.                                      *)
(***************************************************************************)
MarkedIds == {fLog[i].id : i \in {k \in 1..Len(fLog) : fLog[k].op = "mark"}}
ReturnedIds == {fEmails[i] : i \in 1..Len(fEmails)}
FailedIds == {fLog[i].id : i \in {k \in 1..Len(fLog) : fLog[k].op = "get" /\ ~fLog[k].ok}}

\* C30: every mark-as-read attempt follows a successful content fetch of
\* the same message; the messages in the list are exactly those a
\* mark-as-read was attempted for; a message whose content fetch failed is
\* in neither; and at the return every message found was gone through.
C30_MarkOnlyFetched ==
    /\ \A i \in 1..Len(fLog) :
          fLog[i].op = "mark" =>
              \E k \in 1..(i - 1) : fLog[k].op = "get" /\ fLog[k].id = fLog[i].id /\ fLog[k].ok
    /\ MarkedIds = ReturnedIds
    /\ FailedIds \cap (MarkedIds \cup ReturnedIds) = {}
    /\ (fPc = "done" /\ fEnd = "return")
          => (MarkedIds \cup FailedIds = {fMsgs[i] : i \in 1..Len(fMsgs)})

\* The first message could not be fetched, the second was returned and a
\* mark-as-read was attempted for it.
C30_Witness ==
    /\ fPc = "done"
    /\ Len(fMsgs) = 2
    /\ 1 \in FailedIds
    /\ fEmails = <<2>>
    /\ MarkedIds = {2}

====
